---------------------------- MODULE Spec2Model ----------------------------
(***************************************************************************)
(* A model of the clockify-cli request pipeline (src/lib/api.ts), its      *)
(* credential store (src/lib/simple-config.ts), the stopTimer procedure    *)
(* and the auth login command (src/commands/auth.ts).                      *)
(*                                                                         *)
(* Time is the value of Date.now() in milliseconds.  Text (API keys) is a  *)
(* sequence of one-character strings, so that length, character class,     *)
(* prefix and trimming are computed and not assumed.                       *)
(***************************************************************************)
EXTENDS Integers, Sequences, FiniteSets, TLC

\* ------------------------------------------------------------------------
\* Bounds of the model
\* ------------------------------------------------------------------------

\* the clock of SpecPacing runs MaxSlack ms longer than MaxCalls paced
\* requests need
MaxSlack == 20

\* the number of API operations started in one behaviour of SpecApi and
\* of SpecStop
MaxOps == 1

\* the number of API calls made in one behaviour of SpecPacing
MaxCalls == 2

\* the number of time entries the remote service holds
MaxEntries == 2

\* the number of projects the remote service holds
MaxProjects == 2

\* the number of whole request intervals the clock advances by
MaxIntervals == 3

\* calls of the text functions in one run of SpecSanitize
MaxChecks == 3

\* the longest duration literal that is drawn from DurationChars
MaxLiteralLen == 4

\* binary places after the point that parseFloat works out before it rounds
FractionBits == 70

\* ------------------------------------------------------------------------
\* Program constants
\* ------------------------------------------------------------------------

\* api.ts:11   private readonly minRequestInterval = 100
minRequestInterval == 100

\* utils.ts isValidApiKey: apiKey.length < 40 || apiKey.length > 60
MinKeyLen == 40
MaxKeyLen == 60

\* utils.ts isValidApiKey: /(.)\1{10,}/ is a character followed by ten or
\* more copies of itself, a run of RepeatRun + 1 equal characters
RepeatRun == 10

\* parseDuration: hours * 60
MinutesPerHour == 60

\* sanitizeInput: .substring(0, 1000)
MaxSanitizedLen == 1000

\* SECURITY_CONFIG.MAX_DESCRIPTION_LENGTH
MAX_DESCRIPTION_LENGTH == 1000

\* ------------------------------------------------------------------------
\* Text
\* ------------------------------------------------------------------------

LowerChars == <<"a","b","c","d","e","f","g","h","i","j","k","l","m",
                "n","o","p","q","r","s","t","u","v","w","x","y","z">>
UpperChars == <<"A","B","C","D","E","F","G","H","I","J","K","L","M",
                "N","O","P","Q","R","S","T","U","V","W","X","Y","Z">>
DigitChars == <<"0","1","2","3","4","5","6","7","8","9">>

Range(s) == {s[i] : i \in 1..Len(s)}

\* the character class [a-zA-Z0-9]
AlnumChars == Range(LowerChars) \cup Range(UpperChars) \cup Range(DigitChars)

\* the characters String.prototype.trim removes that occur in the model
WhiteChars == {" ", "\n", "\t"}

\* the case folding of the /i flag
ToLowerChar(c) ==
    IF c \in Range(UpperChars)
    THEN LowerChars[CHOOSE i \in 1..Len(UpperChars) : UpperChars[i] = c]
    ELSE c

ToLower(s) == [i \in 1..Len(s) |-> ToLowerChar(s[i])]

StartsWith(s, p) == Len(s) >= Len(p) /\ SubSeq(s, 1, Len(p)) = p

\* String.prototype.trim
RECURSIVE TrimLeft(_)
TrimLeft(s) ==
    IF s # <<>> /\ Head(s) \in WhiteChars THEN TrimLeft(Tail(s)) ELSE s

RECURSIVE TrimRight(_)
TrimRight(s) ==
    IF s # <<>> /\ s[Len(s)] \in WhiteChars
    THEN TrimRight(SubSeq(s, 1, Len(s) - 1))
    ELSE s

Trim(s) == TrimRight(TrimLeft(s))

Min(S) == CHOOSE x \in S : \A y \in S : x <= y

\* the places where the text lit begins in s
Occurrences(s, lit) ==
    {i \in 1..(Len(s) - Len(lit) + 1) :
        s[i] = lit[1] /\ SubSeq(s, i, i + Len(lit) - 1) = lit}

\* String.prototype.includes
Includes(s, lit) == lit = <<>> \/ Occurrences(s, lit) # {}

\* s.replace(/lit/g, ''), for a pattern that is a plain text
RECURSIVE RemoveAll(_, _)
RemoveAll(s, lit) ==
    IF Occurrences(s, lit) = {} THEN s
    ELSE LET i == Min(Occurrences(s, lit))
         IN  SubSeq(s, 1, i - 1)
             \o RemoveAll(SubSeq(s, i + Len(lit), Len(s)), lit)

\* n characters, repeating the pattern pat
Cycle(pat, n) == [i \in 1..n |-> pat[((i - 1) % Len(pat)) + 1]]


\* ------------------------------------------------------------------------
\* isValidApiKey (src/lib/utils.ts)
\* ------------------------------------------------------------------------

\* /^(test|fake|demo|sample)/i
SuspiciousPrefixesNoCase ==
    { <<"t","e","s","t">>, <<"f","a","k","e">>, <<"d","e","m","o">>,
      <<"s","a","m","p","l","e">> }

\* /^(1234|abcd|0000)/
SuspiciousPrefixes ==
    { <<"1","2","3","4">>, <<"a","b","c","d">>, <<"0","0","0","0">> }

\* /(.)\1{10,}/
HasRepeatedRun(s) ==
    \E i \in 1..Len(s) :
        /\ i + RepeatRun <= Len(s)
        /\ \A j \in 1..RepeatRun : s[i + j] = s[i]

\* /^[a-zA-Z0-9]+$/
IsAlnum(s) == s # <<>> /\ \A i \in 1..Len(s) : s[i] \in AlnumChars

\* isValidApiKey without the length check of line 430
isValidApiKey_NoLengthCheck(apiKey) ==
    IF ~IsAlnum(apiKey) THEN FALSE
    ELSE ~ \/ \E p \in SuspiciousPrefixesNoCase : StartsWith(ToLower(apiKey), p)
           \/ \E p \in SuspiciousPrefixes : StartsWith(apiKey, p)
           \/ HasRepeatedRun(apiKey)

isValidApiKey(apiKey) ==
    IF Len(apiKey) < MinKeyLen \/ Len(apiKey) > MaxKeyLen THEN FALSE
    ELSE IF ~IsAlnum(apiKey) THEN FALSE
    ELSE ~ \/ \E p \in SuspiciousPrefixesNoCase : StartsWith(ToLower(apiKey), p)
           \/ \E p \in SuspiciousPrefixes : StartsWith(apiKey, p)
           \/ HasRepeatedRun(apiKey)

\* ------------------------------------------------------------------------
\* The keys of the model
\* ------------------------------------------------------------------------

KeyBody == <<"a","B","3","d","E","7">>

\* well-formed keys: the usual 56 characters, and the two ends of the range
KeyA    == Cycle(KeyBody, 56)
KeyB    == Cycle(<<"Z","9","q">>, MinKeyLen)
KeyMax  == Cycle(<<"k","4","M","x">>, MaxKeyLen)
\* malformed by length
KeyShort == Cycle(KeyBody, MinKeyLen - 1)
KeyLong  == Cycle(KeyBody, MaxKeyLen + 1)
\* malformed by a character outside [a-zA-Z0-9]
KeyDash == Cycle(<<"a","B","-","d">>, 48)
\* well-formed in length and characters, refused as an obvious test key
KeyTest   == <<"T","e","S","t">> \o Cycle(KeyBody, 40)
KeyRepeat == Cycle(KeyBody, 30) \o Cycle(<<"x">>, RepeatRun + 1)
\* a well-formed key as a text editor leaves it in a file
KeyPadded == <<" ">> \o KeyB \o <<"\n">>

WellFormedKeys == {KeyA, KeyB, KeyMax}
Keys == WellFormedKeys \cup {KeyShort, KeyLong, KeyDash, KeyTest, KeyRepeat}

\* the key the claims call malformed: its length is outside 40..60 or it
\* holds a character that is not alphanumeric
Malformed(k) ==
    \/ Len(k) < MinKeyLen
    \/ Len(k) > MaxKeyLen
    \/ \E i \in 1..Len(k) : k[i] \notin AlnumChars

\* ------------------------------------------------------------------------
\* Numbers of JavaScript: parseInt, parseFloat, the product of two doubles
\* and Math.round. A positive binary numeral is a sequence of bits, most
\* significant first; a double is [bits, frac]: the numeral bits with its
\* last frac bits after the binary point.
\* ------------------------------------------------------------------------

\* the bits of the significand of a double
Mantissa == 53

DigitValue(c) == (CHOOSE i \in 1..Len(DigitChars) : DigitChars[i] = c) - 1

\* parseInt of a text of digits
RECURSIVE ParseInt(_)
ParseInt(digits) ==
    IF digits = <<>> THEN 0
    ELSE 10 * ParseInt(SubSeq(digits, 1, Len(digits) - 1))
         + DigitValue(digits[Len(digits)])

RECURSIVE Pow10(_)
Pow10(k) == IF k = 0 THEN 1 ELSE 10 * Pow10(k - 1)

RECURSIVE NatBits(_)
NatBits(n) == IF n = 0 THEN <<>> ELSE Append(NatBits(n \div 2), n % 2)

RECURSIVE BitsNat(_)
BitsNat(b) ==
    IF b = <<>> THEN 0
    ELSE 2 * BitsNat(SubSeq(b, 1, Len(b) - 1)) + b[Len(b)]

\* the first n bits after the binary point of r / d, for r < d
RECURSIVE FracBits(_, _, _)
FracBits(r, d, n) ==
    IF n = 0 THEN <<>>
    ELSE <<(2 * r) \div d>> \o FracBits((2 * r) % d, d, n - 1)

\* what is left of r / d after its first n bits
RECURSIVE FracRem(_, _, _)
FracRem(r, d, n) ==
    IF r = 0 \/ n = 0 THEN r ELSE FracRem((2 * r) % d, d, n - 1)

RECURSIVE StripZeros(_)
StripZeros(b) == IF b # <<>> /\ Head(b) = 0 THEN StripZeros(Tail(b)) ELSE b

\* the numeral plus one
RECURSIVE Increment(_)
Increment(b) ==
    IF b = <<>> THEN <<1>>
    ELSE IF b[Len(b)] = 0 THEN SubSeq(b, 1, Len(b) - 1) \o <<1>>
    ELSE Increment(SubSeq(b, 1, Len(b) - 1)) \o <<0>>

Reverse(b) == [i \in 1..Len(b) |-> b[Len(b) - i + 1]]

\* the numeral times k, plus carry, worked out from the last bit on; the
\* result has its least significant bit first
RECURSIVE MulCarry(_, _, _, _)
MulCarry(b, i, k, carry) ==
    IF i = 0 THEN Reverse(NatBits(carry))
    ELSE <<(b[i] * k + carry) % 2>>
         \o MulCarry(b, i - 1, k, (b[i] * k + carry) \div 2)

\* the numeral times the small whole number k
MulSmall(b, k) == Reverse(MulCarry(b, Len(b), k, 0))

\* round to nearest, ties to even: the double nearest to the numeral bits
\* with frac bits after the point; sticky: more follows the numeral
RoundToDouble(bits, frac, sticky) ==
    LET b == StripZeros(bits)
        n == Len(b)
    IN  IF n <= Mantissa THEN [bits |-> b, frac |-> frac]
        ELSE LET keep == SubSeq(b, 1, Mantissa)
                 rest == SubSeq(b, Mantissa + 1, n)
                 more == sticky \/ \E i \in 2..Len(rest) : rest[i] = 1
                 up   == rest[1] = 1 /\ (more \/ keep[Mantissa] = 1)
             IN  [bits |-> IF up THEN Increment(keep) ELSE keep,
                  frac |-> frac - (n - Mantissa)]

\* parseFloat of <int>.<fraction>: the double nearest to the decimal
ParseFloat(int, fraction) ==
    LET d == Pow10(Len(fraction))
        n == ParseInt(int \o fraction)
    IN  RoundToDouble(NatBits(n \div d) \o FracBits(n % d, d, FractionBits),
                      FractionBits,
                      FracRem(n % d, d, FractionBits) # 0)

\* x * k for a double x and a small whole number k
Times(x, k) == RoundToDouble(MulSmall(x.bits, k), x.frac, FALSE)

\* Math.round of a double that is not negative: halves go up
MathRound(x) ==
    LET n == Len(x.bits)
    IN  IF x.frac <= 0 THEN BitsNat(x.bits)
        ELSE IF n < x.frac THEN 0
        ELSE BitsNat(SubSeq(x.bits, 1, n - x.frac)) + x.bits[n - x.frac + 1]

\* ------------------------------------------------------------------------
\* parseDuration (src/lib/simple-config.ts)
\* ------------------------------------------------------------------------

\* /^\d+$/
IsDigits(s) == s # <<>> /\ \A i \in 1..Len(s) : s[i] \in Range(DigitChars)

\* the places of character c in s
Places(s, c) == {i \in 1..Len(s) : s[i] = c}

\* /^(\d+(?:\.\d+)?)h?$/ : group 1, or <<>> without a match
DecimalHoursMatch(s) ==
    LET body == IF s # <<>> /\ s[Len(s)] = "h" THEN SubSeq(s, 1, Len(s) - 1) ELSE s
    IN  IF IsDigits(body) THEN body
        ELSE IF \E i \in Places(body, ".") :
                    /\ IsDigits(SubSeq(body, 1, i - 1))
                    /\ IsDigits(SubSeq(body, i + 1, Len(body)))
        THEN body
        ELSE <<>>

\* /^(?:(\d+)h)?(?:(\d+)m)?$/ : <<matched, group 1, group 2>>
HoursMinutesMatch(s) ==
    LET hs == {i \in Places(s, "h") : IsDigits(SubSeq(s, 1, i - 1))}
        h  == IF hs = {} THEN 0 ELSE CHOOSE i \in hs : TRUE
        tl == SubSeq(s, h + 1, Len(s))
        ok == tl = <<>> \/ (tl[Len(tl)] = "m" /\ IsDigits(SubSeq(tl, 1, Len(tl) - 1)))
    IN  IF ok
        THEN <<TRUE, SubSeq(s, 1, h - 1), SubSeq(tl, 1, Len(tl) - 1)>>
        ELSE <<FALSE, <<>>, <<>>>>

\* /^(\d+)m$/ and /^(\d+)h$/ : group 1, or <<>> without a match
UnitMatch(s, unit) ==
    IF s # <<>> /\ s[Len(s)] = unit /\ IsDigits(SubSeq(s, 1, Len(s) - 1))
    THEN SubSeq(s, 1, Len(s) - 1) ELSE <<>>

\* the value of parseDuration: minutes, or the error that names the literal
Minutes(n) == [ok |-> TRUE, minutes |-> n, literal |-> <<>>]
InvalidDuration(duration) == [ok |-> FALSE, minutes |-> 0, literal |-> duration]

parseDuration(duration) ==
    LET normalizedDuration == Trim(ToLower(duration))
        decimalHoursMatch == DecimalHoursMatch(normalizedDuration)
        hoursMinutesMatch == HoursMinutesMatch(normalizedDuration)
    IN  IF IsDigits(normalizedDuration)
        THEN Minutes(ParseInt(normalizedDuration))
        ELSE IF decimalHoursMatch # <<>>
        THEN LET dot == Places(decimalHoursMatch, ".")
                 i == IF dot = {} THEN Len(decimalHoursMatch) + 1
                      ELSE CHOOSE j \in dot : TRUE
             IN  Minutes(MathRound(Times(
                     ParseFloat(SubSeq(decimalHoursMatch, 1, i - 1),
                                SubSeq(decimalHoursMatch, i + 1, Len(decimalHoursMatch))),
                     MinutesPerHour)))
        ELSE IF hoursMinutesMatch[1]
        THEN Minutes(ParseInt(hoursMinutesMatch[2]) * MinutesPerHour
                     + ParseInt(hoursMinutesMatch[3]))
        ELSE IF UnitMatch(normalizedDuration, "m") # <<>>
        THEN Minutes(ParseInt(UnitMatch(normalizedDuration, "m")))
        ELSE IF UnitMatch(normalizedDuration, "h") # <<>>
        THEN Minutes(ParseInt(UnitMatch(normalizedDuration, "h")) * MinutesPerHour)
        ELSE InvalidDuration(duration)

\* ------------------------------------------------------------------------
\* sanitizeInput (src/lib/utils.ts)
\* ------------------------------------------------------------------------

\* the double-quote and the backtick characters
QUOT  == "QUOT"
GRAVE == "GRAVE"

\* the character class of sanitizeInput's first replace
DangerousChars == {"<", ">", "&", QUOT, "'", GRAVE}

\* the characters \x00, \x1f, \x7f and \x9f
NUL == "NUL"
US  == "US"
DEL == "DEL"
APC == "APC"

\* /\x00-\x1f/g and /\x7f-\x9f/g stand outside a character class: each
\* matches three characters, the middle one a hyphen
ControlPattern  == <<NUL, "-", US>>
ControlPattern2 == <<DEL, "-", APC>>

\* String.prototype.substring(0, n)
Substring(s, n) == SubSeq(s, 1, IF Len(s) < n THEN Len(s) ELSE n)

sanitizeInput(input) ==
    Substring(
        RemoveAll(
            RemoveAll(SelectSeq(Trim(input), LAMBDA c : c \notin DangerousChars),
                      ControlPattern),
            ControlPattern2),
        MaxSanitizedLen)

\* ------------------------------------------------------------------------
\* State
\* ------------------------------------------------------------------------

\* NoFile: the api-key file does not exist; NoEnv: CLOCKIFY_API_KEY is unset;
\* null: the JavaScript null; NoExit: process.exit has not been called
NoExit == <<>>
NoFile == <<"NoFile">>
NoEnv  == <<"NoEnv">>
null   == <<"null">>

VARIABLES
    now,              \* Date.now()
    lastRequestTime,  \* ClockifyAPI.lastRequestTime
    req,              \* the request inside the axios chain, if any
    resp,             \* what the chain handed back for the last request
    sent,             \* the requests dispatched to the service, in order
    envKey,           \* process.env.CLOCKIFY_API_KEY
    keyFile,          \* contents of ~/.clockify-cli/api-key
    config,           \* SimpleConfigManager.config
    entries,          \* the service: the user's time entries, in list order
    projects,         \* the service: the workspace's projects, in list order
    workspaces,       \* the service: the user's workspaces, in list order
    pc,               \* position of the running operation or command
    op,               \* the running operation: its name, number and locals
    ret,              \* what the last finished operation returned or threw
    exitCode,         \* <<code>> once process.exit(code) ran, NoExit before
    cmd,              \* the command of the CLI that runs: its arguments and locals
    lastIndex,        \* lastIndex of each RegExp of SECURITY_CONFIG.DANGEROUS_PATTERNS
    second,           \* a second request inside the axios chain of the same client
    peer              \* another invocation of the program, a process of its own

pipelineVars == <<now, lastRequestTime, req, resp, sent>>
storeVars    == <<envKey, keyFile, config>>
serviceVars  == <<entries, projects, workspaces>>
procVars     == <<pc, op, ret, exitCode>>
cliVars      == <<cmd, lastIndex>>
concurrentVars == <<second, peer>>
vars == <<now, lastRequestTime, req, resp, sent, envKey, keyFile, config,
          entries, projects, workspaces, pc, op, ret, exitCode, cmd, lastIndex,
          second, peer>>

\* ------------------------------------------------------------------------
\* SimpleConfigManager: the credential store (src/lib/simple-config.ts)
\* ------------------------------------------------------------------------

\* a JavaScript string is truthy when it is not empty
Truthy(x) == x \notin {null, NoEnv, NoFile} /\ x # <<>>

\* a getApiKey that looks at the file first
getApiKeyOf_FileFirst(env, file) ==
    IF file # NoFile THEN Trim(file)
    ELSE IF env # NoEnv /\ env # <<>> THEN env
    ELSE null

getApiKeyOf(env, file) ==
    IF env # NoEnv /\ env # <<>> THEN env
    ELSE IF file # NoFile THEN Trim(file)
    ELSE null

getApiKey == getApiKeyOf(envKey, keyFile)

hasApiKey == getApiKey # null /\ Len(getApiKey) > 0

\* fs.writeFileSync(API_KEY_FILE, apiKey)
setApiKey(apiKey) == keyFile' = apiKey

\* fs.unlinkSync(API_KEY_FILE) when the file exists
removeApiKey == keyFile' = NoFile


\* ------------------------------------------------------------------------
\* The remote service
\* ------------------------------------------------------------------------

\* the API keys the service accepts; KeyMax is well formed and not accepted
AcceptedKeys == {KeyA, KeyB}

\* no timestamp (an entry still running has end = NoTime)
NoTime == -1

NoEntry == [id |-> 0, start |-> NoTime, end |-> NoTime, description |-> <<>>,
            billable |-> FALSE, projectId |-> "", taskId |-> "", tagIds |-> <<>>]

NoBody == NoEntry

\* the JSON null in the place of an id; !id is true of it and of ""
NullId == "null"
Falsy(id) == id \in {"", NullId}

\* the statuses a failed request is answered with, and what the answer carries
FailStatuses == {400, 401, 403, 404, 429, 500, 503}
Bodies == {"", "internal detail"}

Endpoint(path, id) == [path |-> path, id |-> id]

EntryIds(es) == {es[i].id : i \in 1..Len(es)}

IndexOfId(es, id) == CHOOSE i \in 1..Len(es) : es[i].id = id

\* the id the service gives the next entry
FreshId(es) == CHOOSE n \in 1..(Len(es) + 1) : n \notin EntryIds(es)

RemoveAt(s, i) == SubSeq(s, 1, i - 1) \o SubSeq(s, i + 1, Len(s))

\* ------------------------------------------------------------------------
\* The axios chain of ClockifyAPI.client (src/lib/api.ts, constructor)
\* ------------------------------------------------------------------------

MsgInvalidKeyFormat     == "Invalid API key format detected"
MsgAuthenticationFailed == "Authentication failed. Please check your API key."
MsgAccessDenied         == "Access denied. Check your permissions."
MsgRateLimited          == "Rate limit exceeded. Please try again later."
MsgNotFound             == "Resource not found."
MsgServerError          == "Server error. Please try again later."
MsgGeneric              == "Request failed. Please check your connection and try again."
MsgNoRunningTimer       == "No running timer found"

\* the errors that enter the response interceptor's second handler
HttpError(status, body) ==
    [kind |-> "response", status |-> status, body |-> body, message |-> "http"]
NoResponseError ==
    [kind |-> "noresponse", status |-> 0, body |-> "", message |-> "timeout"]
ThrownError(message) ==
    [kind |-> "thrown", status |-> 0, body |-> "", message |-> message]
NoError == [kind |-> "none", status |-> 0, body |-> "", message |-> ""]

\* error.response?.status === n; without a response it is undefined and every
\* comparison with it is false
StatusIs(error, n) == error.kind = "response" /\ error.status = n
StatusAtLeast(error, n) == error.kind = "response" /\ error.status >= n

\* the handler with "> 500" where the code has ">= 500"
responseErrorHandler_Gt500(error) ==
    IF StatusIs(error, 401) THEN MsgAuthenticationFailed
    ELSE IF StatusIs(error, 403) THEN MsgAccessDenied
    ELSE IF StatusIs(error, 429) THEN MsgRateLimited
    ELSE IF StatusIs(error, 404) THEN MsgNotFound
    ELSE IF StatusAtLeast(error, 501) THEN MsgServerError
    ELSE MsgGeneric

\* the second handler of interceptors.response.use: the message it throws
responseErrorHandler(error) ==
    IF StatusIs(error, 401) THEN MsgAuthenticationFailed
    ELSE IF StatusIs(error, 403) THEN MsgAccessDenied
    ELSE IF StatusIs(error, 429) THEN MsgRateLimited
    ELSE IF StatusIs(error, 404) THEN MsgNotFound
    ELSE IF StatusAtLeast(error, 500) THEN MsgServerError
    ELSE MsgGeneric

NoData == [user |-> "", list |-> <<>>, entry |-> NoEntry]

IdleReq == [phase |-> "idle", method |-> "", endpoint |-> Endpoint("", 0),
            body |-> NoBody, op |-> "", opn |-> 0, wakeAt |-> 0]

NoResp == [ok |-> TRUE, error |-> "", raw |-> NoError, data |-> NoData]

\* A rejection anywhere in the chain (a request interceptor that throws, or
\* the transport) runs through the rejected handler of every later link:
\* the chain is promise.then(requestInterceptor).then(dispatchRequest)
\* .then(response => response, responseErrorHandler).
ChainRejected(error) ==
    [ok |-> FALSE, error |-> responseErrorHandler(error), raw |-> error,
     data |-> NoData]

ChainFulfilled(data) ==
    [ok |-> TRUE, error |-> "", raw |-> NoError, data |-> data]

\* the request in the form the service receives it
Dispatched(r, apiKey) ==
    [method |-> r.method, endpoint |-> r.endpoint, body |-> r.body,
     time |-> now, key |-> apiKey, op |-> r.op, opn |-> r.opn]

\* request interceptor, lines 31-41, for request r: the time is recorded,
\* the key is fetched and checked, and the request leaves for the service
Proceed(r) ==
    /\ lastRequestTime' = now
    /\ LET apiKey == getApiKey
       IN  IF Truthy(apiKey) /\ ~isValidApiKey(apiKey)
           THEN /\ req' = [r EXCEPT !.phase = "done", !.wakeAt = 0]
                /\ resp' = ChainRejected(ThrownError(MsgInvalidKeyFormat))
                /\ sent' = sent
           ELSE /\ req' = [r EXCEPT !.phase = "inflight", !.wakeAt = 0]
                /\ sent' = Append(sent, Dispatched(r, apiKey))
                /\ resp' = NoResp

\* the interceptor without lines 26-30: it never sleeps
Issue_NoSleep(method, endpoint, body, owner) ==
    Proceed([phase |-> "pacing", method |-> method, endpoint |-> endpoint,
             body |-> body, op |-> owner.name, opn |-> owner.n, wakeAt |-> now])

\* this.client.get/post/put/delete by operation owner: the request
\* interceptor starts; lines 26-30 decide whether to sleep, and without a
\* sleep the interceptor goes on at once
Issue(method, endpoint, body, owner) ==
    LET timeSinceLastRequest == now - lastRequestTime
        r == [phase |-> "pacing", method |-> method, endpoint |-> endpoint,
              body |-> body, op |-> owner.name, opn |-> owner.n,
              wakeAt |-> now + (minRequestInterval - timeSinceLastRequest)]
    IN  IF timeSinceLastRequest < minRequestInterval
        THEN /\ req' = r
             /\ resp' = NoResp
             /\ UNCHANGED <<lastRequestTime, sent>>
        ELSE Proceed(r)

\* the sleep of line 29 is over (setTimeout fires at its time or later)
Intercept ==
    /\ req.phase = "pacing"
    /\ now >= req.wakeAt
    /\ Proceed(req)
    /\ UNCHANGED <<now, storeVars, concurrentVars, serviceVars, procVars, cliVars>>

\* ------------------------------------------------------------------------
\* The service answers the request in flight
\* ------------------------------------------------------------------------

InFlight == sent[Len(sent)]

InsertAt(s, i, e) == SubSeq(s, 1, i - 1) \o <<e>> \o SubSeq(s, i, Len(s))

\* no answer within the 10 s timeout, or no connection
RespondNothing ==
    /\ req.phase = "inflight"
    /\ req' = [req EXCEPT !.phase = "done"]
    /\ resp' = ChainRejected(NoResponseError)
    /\ UNCHANGED <<now, lastRequestTime, sent, storeVars, concurrentVars, serviceVars, procVars, cliVars>>

\* an answer with a status outside 2xx
RespondFailure ==
    /\ req.phase = "inflight"
    /\ \E status \in FailStatuses, body \in Bodies :
          resp' = ChainRejected(HttpError(status, body))
    /\ req' = [req EXCEPT !.phase = "done"]
    /\ UNCHANGED <<now, lastRequestTime, sent, storeVars, concurrentVars, serviceVars, procVars, cliVars>>

\* a 2xx answer to a read
RespondRead ==
    /\ req.phase = "inflight"
    /\ InFlight.key \in AcceptedKeys
    /\ InFlight.method = "GET"
    /\ resp' = ChainFulfilled(
          CASE InFlight.endpoint.path = "user" -> [NoData EXCEPT !.user = "u1"]
            [] InFlight.endpoint.path = "workspaces" -> [NoData EXCEPT !.list = workspaces]
            [] InFlight.endpoint.path = "projects" -> [NoData EXCEPT !.list = projects]
            [] InFlight.endpoint.path = "user-entries" -> [NoData EXCEPT !.list = entries])
    /\ req' = [req EXCEPT !.phase = "done"]
    /\ UNCHANGED <<now, lastRequestTime, sent, storeVars, concurrentVars, serviceVars, procVars, cliVars>>

\* a 2xx answer to POST /time-entries: the entry exists from now on
RespondCreateEntry ==
    /\ req.phase = "inflight"
    /\ InFlight.key \in AcceptedKeys
    /\ InFlight.method = "POST" /\ InFlight.endpoint.path = "time-entries"
    /\ Len(entries) < MaxEntries
    /\ LET created == [InFlight.body EXCEPT !.id = FreshId(entries)]
       IN  /\ \E i \in 1..(Len(entries) + 1) : entries' = InsertAt(entries, i, created)
           /\ resp' = ChainFulfilled([NoData EXCEPT !.entry = created])
    /\ req' = [req EXCEPT !.phase = "done"]
    /\ UNCHANGED <<now, lastRequestTime, sent, storeVars, concurrentVars, projects, workspaces, procVars, cliVars>>

\* a 2xx answer to PUT /time-entries/{id}: the entry takes the values sent
RespondUpdateEntry ==
    /\ req.phase = "inflight"
    /\ InFlight.key \in AcceptedKeys
    /\ InFlight.method = "PUT" /\ InFlight.endpoint.path = "time-entry"
    /\ InFlight.endpoint.id \in EntryIds(entries)
    /\ LET i == IndexOfId(entries, InFlight.endpoint.id)
           updated == [InFlight.body EXCEPT !.id = InFlight.endpoint.id]
       IN  /\ entries' = [entries EXCEPT ![i] = updated]
           /\ resp' = ChainFulfilled([NoData EXCEPT !.entry = updated])
    /\ req' = [req EXCEPT !.phase = "done"]
    /\ UNCHANGED <<now, lastRequestTime, sent, storeVars, concurrentVars, projects, workspaces, procVars, cliVars>>

\* a 2xx answer to DELETE /time-entries/{id}
RespondDeleteEntry ==
    /\ req.phase = "inflight"
    /\ InFlight.key \in AcceptedKeys
    /\ InFlight.method = "DELETE" /\ InFlight.endpoint.path = "time-entry"
    /\ InFlight.endpoint.id \in EntryIds(entries)
    /\ entries' = RemoveAt(entries, IndexOfId(entries, InFlight.endpoint.id))
    /\ resp' = ChainFulfilled(NoData)
    /\ req' = [req EXCEPT !.phase = "done"]
    /\ UNCHANGED <<now, lastRequestTime, sent, storeVars, concurrentVars, projects, workspaces, procVars, cliVars>>

\* a 2xx answer to POST /projects
RespondCreateProject ==
    /\ req.phase = "inflight"
    /\ InFlight.key \in AcceptedKeys
    /\ InFlight.method = "POST" /\ InFlight.endpoint.path = "projects"
    /\ Len(projects) < MaxProjects
    /\ projects' = Append(projects, [id |-> "p3", name |-> InFlight.body.name])
    /\ resp' = ChainFulfilled(NoData)
    /\ req' = [req EXCEPT !.phase = "done"]
    /\ UNCHANGED <<now, lastRequestTime, sent, storeVars, concurrentVars, entries, workspaces, procVars, cliVars>>

\* time passes
Tick(d) ==
    /\ now' = now + d
    /\ UNCHANGED <<lastRequestTime, req, resp, sent, storeVars, concurrentVars, serviceVars, procVars, cliVars>>

\* ------------------------------------------------------------------------
\* ClockifyAPI operations (src/lib/api.ts)
\* ------------------------------------------------------------------------

\* operation number n: its name and the locals of stopTimer (listed: the
\* entry list came back; projectsFailed: getProjects threw and was caught)
NewOp(name, n) ==
    [name |-> name, n |-> n, listed |-> FALSE, timeEntries |-> <<>>,
     runningEntry |-> NoEntry, projectsFailed |-> FALSE]

NoRet == [name |-> "", status |-> "none", error |-> "", prefix |-> "",
          raw |-> NoError, value |-> null]

Returned(name) ==
    [name |-> name, status |-> "ok", error |-> "", prefix |-> "",
     raw |-> NoError, value |-> null]

\* the operation throws: prefix and message are what the caller catches; raw
\* is the failure the axios chain started from, NoError when the operation
\* threw by itself
Threw(name, prefix, message, raw) ==
    [name |-> name, status |-> "error", error |-> message, prefix |-> prefix,
     raw |-> raw, value |-> null]

\* what the time-entry requests of the callers look like
EntryRequests ==
    { [NoEntry EXCEPT !.description = <<"w","o","r","k">>],
      [NoEntry EXCEPT !.billable = TRUE, !.projectId = "p1", !.taskId = "t1",
                      !.tagIds = <<"g1">>, !.end = now] }

\* an operation that is a single request starts
Call(name, method, endpoint, body) ==
    /\ pc = "idle"
    /\ op' = NewOp(name, op.n + 1)
    /\ pc' = "single"
    /\ Issue(method, endpoint, body, NewOp(name, op.n + 1))
    /\ ret' = NoRet
    /\ UNCHANGED <<now, storeVars, concurrentVars, serviceVars, exitCode>>

testConnection == Call("testConnection", "GET", Endpoint("user", 0), NoBody)

getCurrentUser == Call("getCurrentUser", "GET", Endpoint("user", 0), NoBody)

getWorkspaces == Call("getWorkspaces", "GET", Endpoint("workspaces", 0), NoBody)

getProjects == Call("getProjects", "GET", Endpoint("projects", 0), NoBody)

createProject ==
    \E name \in {<<"N","e","w">>} :
        Call("createProject", "POST", Endpoint("projects", 0), [name |-> name])

getTimeEntries == Call("getTimeEntries", "GET", Endpoint("user-entries", 0), NoBody)

\* entryWithStart = {...timeEntry, start: new Date().toISOString()}
startTimerOf(timeEntry) ==
    Call("startTimer", "POST", Endpoint("time-entries", 0),
         [timeEntry EXCEPT !.start = now])

startTimer == \E timeEntry \in EntryRequests : startTimerOf(timeEntry)

createTimeEntryOf(timeEntry) ==
    Call("createTimeEntry", "POST", Endpoint("time-entries", 0), timeEntry)

createTimeEntry ==
    \E timeEntry \in EntryRequests :
        createTimeEntryOf([timeEntry EXCEPT !.start = now - minRequestInterval,
                                            !.end = now])

updateTimeEntry ==
    \E timeEntryId \in 1..MaxEntries :
        Call("updateTimeEntry", "PUT", Endpoint("time-entry", timeEntryId),
             [NoEntry EXCEPT !.description = <<"e","d","i","t">>, !.start = now, !.end = now])

deleteTimeEntry ==
    \E timeEntryId \in 1..MaxEntries :
        Call("deleteTimeEntry", "DELETE", Endpoint("time-entry", timeEntryId), NoBody)

\* the single request is over: the operation returns response.data or lets
\* the error of the chain through; testConnection alone catches and rethrows
ReturnSingle ==
    /\ pc = "single"
    /\ req.phase = "done"
    /\ ret' = IF resp.ok THEN [Returned(op.name) EXCEPT !.value = resp.data]
              ELSE Threw(op.name,
                         IF op.name = "testConnection"
                         THEN "Connection test failed: " ELSE "",
                         resp.error, resp.raw)
    /\ pc' = "idle"
    /\ req' = IdleReq
    /\ resp' = NoResp
    /\ UNCHANGED <<now, lastRequestTime, sent, storeVars, concurrentVars, serviceVars, op, exitCode, cliVars>>

\* ---- stopTimer ----------------------------------------------------------

\* a find whose predicate is true of every entry
IsRunning_Always(entry) == entry.id # NoEntry.id

\* timeEntries.find(entry => !entry.timeInterval.end)
IsRunning(entry) == entry.end = NoTime

RunningIndexes(timeEntries) ==
    {i \in 1..Len(timeEntries) : IsRunning(timeEntries[i])}

\* the head of the list, whether or not it is running
FindRunning_First(timeEntries) ==
    IF timeEntries = <<>> THEN NoEntry ELSE timeEntries[1]

\* a find that keeps the last entry its predicate is true of
FindRunning_Last(timeEntries) ==
    IF RunningIndexes(timeEntries) = {} THEN NoEntry
    ELSE timeEntries[CHOOSE i \in RunningIndexes(timeEntries) :
                        \A j \in RunningIndexes(timeEntries) : j <= i]

FindRunning(timeEntries) ==
    IF RunningIndexes(timeEntries) = {} THEN NoEntry
    ELSE timeEntries[Min(RunningIndexes(timeEntries))]

\* x || null, for an id: "" stands for a missing field
OrNull(x) == IF x \in {"", NullId} THEN NullId ELSE x

\* a payload built from defaults: only id-free start, end and description
\* of the running entry survive
stopData_Defaults(runningEntry, projectId) ==
    [NoEntry EXCEPT !.start = runningEntry.start, !.end = now,
                    !.description = runningEntry.description,
                    !.projectId = OrNull(projectId), !.taskId = NullId]

\* lines 175-183, with end: new Date().toISOString()
stopData(runningEntry, projectId) ==
    [id |-> 0,
     start |-> runningEntry.start,
     end |-> now,
     billable |-> runningEntry.billable,
     description |-> runningEntry.description,
     projectId |-> OrNull(projectId),
     taskId |-> OrNull(runningEntry.taskId),
     tagIds |-> runningEntry.tagIds]

\* lines 185-188
IssueStop(runningEntry, projectId) ==
    Issue("PUT", Endpoint("time-entry", runningEntry.id),
          stopData(runningEntry, projectId), op)

\* line 154: getTimeEntries is called
stopTimer ==
    /\ pc = "idle"
    /\ op' = NewOp("stopTimer", op.n + 1)
    /\ pc' = "stop_entries"
    /\ Issue("GET", Endpoint("user-entries", 0), NoBody, NewOp("stopTimer", op.n + 1))
    /\ ret' = NoRet
    /\ UNCHANGED <<now, storeVars, concurrentVars, serviceVars, exitCode>>

\* lines 154-172: the list is back
stopTimerEntries ==
    /\ pc = "stop_entries"
    /\ req.phase = "done"
    /\ LET timeEntries == resp.data.list
           runningEntry == FindRunning(timeEntries)
           listed == [op EXCEPT !.listed = TRUE, !.timeEntries = timeEntries,
                                !.runningEntry = runningEntry]
       IN  IF ~resp.ok
           THEN /\ ret' = Threw("stopTimer", "", resp.error, resp.raw)
                /\ pc' = "idle" /\ op' = op /\ req' = IdleReq /\ resp' = NoResp
                /\ UNCHANGED <<lastRequestTime, sent>>
           ELSE IF runningEntry = NoEntry
           THEN /\ ret' = Threw("stopTimer", "", MsgNoRunningTimer, NoError)
                /\ pc' = "idle" /\ op' = listed /\ req' = IdleReq /\ resp' = NoResp
                /\ UNCHANGED <<lastRequestTime, sent>>
           ELSE IF Falsy(runningEntry.projectId)
           THEN /\ op' = listed
                /\ pc' = "stop_projects"
                /\ Issue("GET", Endpoint("projects", 0), NoBody, op)
                /\ ret' = ret
           ELSE /\ op' = listed
                /\ pc' = "stop_update"
                /\ IssueStop(runningEntry, runningEntry.projectId)
                /\ ret' = ret
    /\ UNCHANGED <<now, storeVars, concurrentVars, serviceVars, exitCode, cliVars>>

\* lines 164-171: the default project, or the catch that ignores the failure
DefaultProject(projectId) ==
    IF resp.ok /\ Len(resp.data.list) > 0 THEN resp.data.list[1].id
    ELSE projectId

\* stopTimer without the try/catch of lines 164-171
stopTimerProjects_Rethrow ==
    /\ pc = "stop_projects"
    /\ req.phase = "done"
    /\ IF resp.ok
       THEN /\ pc' = "stop_update"
            /\ op' = op
            /\ IssueStop(op.runningEntry, DefaultProject(op.runningEntry.projectId))
            /\ ret' = ret
       ELSE /\ pc' = "idle"
            /\ op' = [op EXCEPT !.projectsFailed = TRUE]
            /\ ret' = Threw("stopTimer", "", resp.error, resp.raw)
            /\ req' = IdleReq /\ resp' = NoResp
            /\ UNCHANGED <<lastRequestTime, sent>>
    /\ UNCHANGED <<now, storeVars, concurrentVars, serviceVars, exitCode, cliVars>>

\* lines 164-188: the project list is back, or getProjects threw
stopTimerProjects ==
    /\ pc = "stop_projects"
    /\ req.phase = "done"
    /\ pc' = "stop_update"
    /\ op' = [op EXCEPT !.projectsFailed = ~resp.ok]
    /\ IssueStop(op.runningEntry, DefaultProject(op.runningEntry.projectId))
    /\ UNCHANGED <<now, storeVars, concurrentVars, serviceVars, ret, exitCode, cliVars>>

\* a stopTimer that sends its update once more when it failed
stopTimerUpdate_Retry ==
    /\ pc = "stop_update"
    /\ req.phase = "done"
    /\ IF ~resp.ok /\ Len(SelectSeq(sent, LAMBDA r : r.opn = op.n /\ r.method = "PUT")) < 2
       THEN /\ Issue(req.method, req.endpoint, req.body, op)
            /\ UNCHANGED <<pc, ret>>
       ELSE /\ ret' = IF resp.ok THEN Returned("stopTimer")
                      ELSE Threw("stopTimer", "", resp.error, resp.raw)
            /\ pc' = "idle" /\ req' = IdleReq
            /\ resp' = NoResp
            /\ UNCHANGED <<lastRequestTime, sent>>
    /\ UNCHANGED <<now, storeVars, concurrentVars, serviceVars, op, exitCode, cliVars>>

\* lines 185-189: the update is over
stopTimerUpdate ==
    /\ pc = "stop_update"
    /\ req.phase = "done"
    /\ ret' = IF resp.ok THEN [Returned("stopTimer") EXCEPT !.value = resp.data]
              ELSE Threw("stopTimer", "", resp.error, resp.raw)
    /\ pc' = "idle" /\ req' = IdleReq
    /\ resp' = NoResp
    /\ UNCHANGED <<now, lastRequestTime, sent, storeVars, concurrentVars, serviceVars, op, exitCode, cliVars>>

\* ------------------------------------------------------------------------
\* Initial states
\* ------------------------------------------------------------------------

DefaultConfig == [workspaceId |-> "", timeFormat |-> "24h", billableByDefault |-> FALSE]

P1 == [id |-> "p1", name |-> <<"O","p","s">>]
P2 == [id |-> "p2", name |-> <<"W","e","b">>]

W1 == [id |-> "w1", name |-> "one"]
W2 == [id |-> "w2", name |-> "two"]

\* entries that earlier runs of start and add left on the service; none
\* began after the clock's first value
Earlier(id, start, end, projectId) ==
    [NoEntry EXCEPT !.id = id, !.start = start, !.end = end,
                    !.projectId = projectId, !.description = <<"o","l","d">>]

\* an entry that is billable and has a task and a tag
Tagged(entry) ==
    [entry EXCEPT !.billable = TRUE, !.taskId = "t1", !.tagIds = <<"g1">>]

InitialEntryLists ==
    { <<>>,
      <<Earlier(1, minRequestInterval, NoTime, "")>>,
      <<Earlier(1, 0, 0, "p1")>>,
      <<Earlier(2, 0, minRequestInterval, ""), Tagged(Earlier(1, 0, NoTime, "p2"))>>,
      <<Earlier(1, 0, NoTime, ""), Earlier(2, minRequestInterval, NoTime, "p1")>> }

\* the environment variable (unset, empty, or whatever the user exported)
\* and the key file (missing, or a key that login checked and stored)
KeyStores ==
    { <<NoEnv, KeyA>>, <<NoEnv, NoFile>>, <<NoEnv, KeyMax>>, <<<<>>, KeyB>>,
      <<KeyShort, KeyA>>, <<KeyDash, NoFile>>, <<KeyLong, KeyMax>>,
      <<KeyTest, KeyA>> }

\* no other invocation of the program runs. An invocation keeps the name of
\* its command, its position, the running entry its stopTimer found, and
\* what it printed last
NoPeer == [name |-> "", at |-> "", runningEntry |-> NoEntry, said |-> ""]

InitPipeline ==
    /\ now = minRequestInterval
    /\ lastRequestTime = 0
    /\ req = IdleReq
    /\ second = IdleReq
    /\ peer = NoPeer
    /\ resp = NoResp
    /\ sent = <<>>

\* no command runs. A command keeps its arguments (key, duration,
\* description, project; input for a call of one of the text functions, and
\* again: the input is what the call before returned), its locals (userId,
\* timeEntry, runningEntry), what
\* it printed last (said), and topLevel: whether the entries the service
\* lists repeat start and end at their top level, where the TimeEntry type
\* declares them, besides timeInterval
NoCmd == [name |-> "", at |-> "", key |-> <<>>, duration |-> <<>>,
          input |-> <<>>, again |-> FALSE,
          description |-> <<>>, project |-> <<>>, topLevel |-> FALSE,
          userId |-> "", timeEntry |-> NoEntry, runningEntry |-> NoEntry,
          said |-> ""]

\* a RegExp object starts with lastIndex 0
NoLastIndex == [script |-> 0, javascript |-> 0, on |-> 0, data |-> 0, vbscript |-> 0]

InitProc ==
    /\ pc = "idle"
    /\ op = NewOp("", 0)
    /\ ret = NoRet
    /\ exitCode = NoExit
    /\ cmd = NoCmd
    /\ lastIndex = NoLastIndex

\* ------------------------------------------------------------------------
\* SpecApi: every operation of ClockifyAPI against the service, with every
\* kind of key store; the clock moves when a sleeping request is due
\* ------------------------------------------------------------------------

InitApi ==
    /\ InitPipeline
    /\ InitProc
    /\ \E store \in KeyStores : envKey = store[1] /\ keyFile = store[2]
    /\ config = DefaultConfig
    /\ entries \in {<<>>, <<Earlier(1, 0, NoTime, ""), Earlier(2, 0, 0, "p1")>>}
    /\ projects \in {<<>>, <<P2, P1>>}
    /\ workspaces = <<W1>>

\* setTimeout fires: the sleeping interceptor resumes when it is due
Sleep ==
    /\ req.phase = "pacing"
    /\ now < req.wakeAt
    /\ Tick(req.wakeAt - now)

NextApi ==
    \/ Sleep
    \/ Intercept
    \/ RespondNothing
    \/ RespondFailure
    \/ RespondRead
    \/ RespondCreateEntry
    \/ RespondUpdateEntry
    \/ RespondDeleteEntry
    \/ RespondCreateProject
    \/ op.n < MaxOps /\ testConnection /\ UNCHANGED cliVars
    \/ op.n < MaxOps /\ getCurrentUser /\ UNCHANGED cliVars
    \/ op.n < MaxOps /\ getWorkspaces /\ UNCHANGED cliVars
    \/ op.n < MaxOps /\ getProjects /\ UNCHANGED cliVars
    \/ op.n < MaxOps /\ createProject /\ UNCHANGED cliVars
    \/ op.n < MaxOps /\ getTimeEntries /\ UNCHANGED cliVars
    \/ op.n < MaxOps /\ startTimer /\ UNCHANGED cliVars
    \/ op.n < MaxOps /\ createTimeEntry /\ UNCHANGED cliVars
    \/ op.n < MaxOps /\ updateTimeEntry /\ UNCHANGED cliVars
    \/ op.n < MaxOps /\ deleteTimeEntry /\ UNCHANGED cliVars
    \/ op.n < MaxOps /\ stopTimer /\ UNCHANGED cliVars
    \/ ReturnSingle
    \/ stopTimerEntries
    \/ stopTimerProjects
    \/ stopTimerUpdate

SpecApi == InitApi /\ [][NextApi]_vars

\* ------------------------------------------------------------------------
\* SpecStop: startTimer and stopTimer against the service, with a key the
\* service accepts; the clock moves freely in steps of one request interval
\* ------------------------------------------------------------------------

InitStop ==
    /\ InitPipeline
    /\ InitProc
    /\ \E store \in {<<NoEnv, KeyA>>, <<<<>>, KeyB>>} :
          envKey = store[1] /\ keyFile = store[2]
    /\ config = DefaultConfig
    /\ entries \in InitialEntryLists
    /\ projects \in {<<>>, <<P2, P1>>}
    /\ workspaces = <<W1>>

TickInterval ==
    /\ now + minRequestInterval <= minRequestInterval * (MaxIntervals + 1)
    /\ Tick(minRequestInterval)

NextStop ==
    \/ TickInterval
    \/ Intercept
    \/ RespondNothing
    \/ RespondFailure
    \/ RespondRead
    \/ RespondCreateEntry
    \/ RespondUpdateEntry
    \/ op.n < MaxOps /\ startTimer /\ UNCHANGED cliVars
    \/ op.n < MaxOps /\ stopTimer /\ UNCHANGED cliVars
    \/ ReturnSingle
    \/ stopTimerEntries
    \/ stopTimerProjects
    \/ stopTimerUpdate

SpecStop == InitStop /\ [][NextStop]_vars

\* ------------------------------------------------------------------------
\* SpecPacing: API calls one after another, each started when the one before
\* is over, with a key the service accepts; the clock moves millisecond by
\* millisecond, whether or not anything waits for it
\* ------------------------------------------------------------------------

InitPacing ==
    /\ InitPipeline
    /\ InitProc
    /\ envKey = NoEnv
    /\ keyFile = KeyA
    /\ config = DefaultConfig
    /\ entries = <<>>
    /\ projects = <<>>
    /\ workspaces = <<W1>>

TickMs ==
    /\ now < minRequestInterval * MaxCalls + MaxSlack
    /\ Tick(1)

NextPacing ==
    \/ TickMs
    \/ Intercept
    \/ RespondNothing
    \/ RespondRead
    \/ op.n < MaxCalls /\ getCurrentUser /\ UNCHANGED cliVars
    \/ ReturnSingle

SpecPacing == InitPacing /\ [][NextPacing]_vars

\* C1: for any sequence of API calls issued one after another on the single
\* client, the dispatch times of two consecutive requests are at least
\* minRequestInterval (100 ms) apart.
C1_ConsecutiveDispatchesPaced ==
    \A i \in 1..(Len(sent) - 1) :
        sent[i + 1].time - sent[i].time >= minRequestInterval

\* C1, witness: the second call came 40 ms after the first left, slept, and
\* left exactly one interval after it
C1_Witness ==
    /\ Len(sent) = 2
    /\ sent[2].time - sent[1].time = minRequestInterval
    /\ req.phase = "inflight"
    /\ ret = NoRet

\* ------------------------------------------------------------------------
\* SpecTwoCalls: the calls of SpecPacing, and one more call on the same
\* client that does not wait for them: its request enters the request
\* interceptor whenever it likes, also while a request of theirs sleeps there
\* ------------------------------------------------------------------------

\* request interceptor, lines 31-41, for the second request
ProceedSecond(r) ==
    /\ lastRequestTime' = now
    /\ LET apiKey == getApiKey
       IN  IF Truthy(apiKey) /\ ~isValidApiKey(apiKey)
           THEN /\ second' = [r EXCEPT !.phase = "done", !.wakeAt = 0]
                /\ sent' = sent
           ELSE /\ second' = [r EXCEPT !.phase = "inflight", !.wakeAt = 0]
                /\ sent' = Append(sent, Dispatched(r, apiKey))

\* this.client.get('/workspaces') by a caller that did not await the call
\* under way: request interceptor, lines 24-31
secondCall ==
    /\ second.phase = "idle"
    /\ LET timeSinceLastRequest == now - lastRequestTime
           r == [phase |-> "pacing", method |-> "GET",
                 endpoint |-> Endpoint("workspaces", 0), body |-> NoBody,
                 op |-> "getWorkspaces", opn |-> 0,
                 wakeAt |-> now + (minRequestInterval - timeSinceLastRequest)]
       IN  IF timeSinceLastRequest < minRequestInterval
           THEN /\ second' = r
                /\ UNCHANGED <<lastRequestTime, sent>>
           ELSE ProceedSecond(r)
    /\ UNCHANGED <<now, req, resp, storeVars, serviceVars, procVars, cliVars, peer>>

\* the sleep of the second request is over
InterceptSecond ==
    /\ second.phase = "pacing"
    /\ now >= second.wakeAt
    /\ ProceedSecond(second)
    /\ UNCHANGED <<now, req, resp, storeVars, serviceVars, procVars, cliVars, peer>>

\* the service answers the second request, or the timeout ends it
RespondSecond ==
    /\ second.phase = "inflight"
    /\ second' = [second EXCEPT !.phase = "done"]
    /\ UNCHANGED <<pipelineVars, storeVars, serviceVars, procVars, cliVars, peer>>

\* the clock moves by a quarter of the interval
TickQuarter ==
    /\ now < minRequestInterval * MaxCalls + MaxSlack
    /\ Tick(minRequestInterval \div 4)

NextTwoCalls ==
    \/ TickQuarter
    \/ Intercept
    \/ RespondNothing
    \/ RespondRead
    \/ op.n < MaxCalls /\ getCurrentUser /\ UNCHANGED cliVars
    \/ ReturnSingle
    \/ secondCall
    \/ InterceptSecond
    \/ RespondSecond

SpecTwoCalls == InitPacing /\ [][NextTwoCalls]_vars

\* C22: no two requests of the single client leave closer together than
\* minRequestInterval, also when a second call enters the request
\* interceptor while an earlier one sleeps there or has not yet left
C22_NoTwoDeparturesCloser ==
    \A i, j \in 1..Len(sent) :
        i < j => sent[j].time - sent[i].time >= minRequestInterval

\* ------------------------------------------------------------------------
\* SpecCred: callers of the credential store, one call after another, for
\* every state of the environment variable
\* ------------------------------------------------------------------------

InitCred ==
    /\ InitPipeline
    /\ InitProc
    /\ envKey \in {NoEnv, <<>>, KeyB, KeyShort}
    /\ keyFile \in {NoFile, KeyA}
    /\ config = DefaultConfig
    /\ entries = <<>>
    /\ projects = <<>>
    /\ workspaces = <<W1>>

\* what a caller may hand to setApiKey
StoredTexts == Keys \cup {KeyPadded, <<>>}

\* await configManager.setApiKey(apiKey)
callSetApiKey ==
    \E apiKey \in StoredTexts :
        /\ setApiKey(apiKey)
        /\ op' = NewOp("setApiKey", op.n + 1)
        /\ ret' = Returned("setApiKey")
        /\ UNCHANGED <<pipelineVars, envKey, concurrentVars, config, serviceVars, pc, exitCode, cliVars>>

\* await configManager.removeApiKey(): true when there was a file
callRemoveApiKey ==
    /\ removeApiKey
    /\ op' = NewOp("removeApiKey", op.n + 1)
    /\ ret' = [Returned("removeApiKey") EXCEPT
                  !.value = IF keyFile # NoFile THEN <<"true">> ELSE <<"false">>]
    /\ UNCHANGED <<pipelineVars, envKey, concurrentVars, config, serviceVars, pc, exitCode, cliVars>>

\* await configManager.getApiKey()
callGetApiKey ==
    /\ op' = NewOp("getApiKey", op.n + 1)
    /\ ret' = [Returned("getApiKey") EXCEPT !.value = getApiKey]
    /\ UNCHANGED <<pipelineVars, storeVars, concurrentVars, serviceVars, pc, exitCode, cliVars>>

\* await configManager.hasApiKey()
callHasApiKey ==
    /\ op' = NewOp("hasApiKey", op.n + 1)
    /\ ret' = [Returned("hasApiKey") EXCEPT
                  !.value = IF hasApiKey THEN <<"true">> ELSE <<"false">>]
    /\ UNCHANGED <<pipelineVars, storeVars, concurrentVars, serviceVars, pc, exitCode, cliVars>>

NextCred ==
    \/ op.n < MaxCalls /\ callSetApiKey
    \/ op.n < MaxCalls /\ callRemoveApiKey
    \/ op.n < MaxCalls /\ callGetApiKey
    \/ op.n < MaxCalls /\ callHasApiKey

SpecCred == InitCred /\ [][NextCred]_vars

\* CLOCKIFY_API_KEY is set to a text that is not empty
EnvOverride == envKey # NoEnv /\ envKey # <<>>

\* C9: whenever both the CLOCKIFY_API_KEY override (set and not empty) and a
\* key file are present, getApiKey returns the environment value, after any
\* sequence of setApiKey and removeApiKey calls.
C9_EnvOverrideWins ==
    (EnvOverride /\ keyFile # NoFile)
    => /\ getApiKey = envKey
       /\ ret.name = "getApiKey" => ret.value = envKey

\* C9, witness: with the override set, a well-formed key other than the
\* override was stored, and the getApiKey that followed returned the override
C9_Witness ==
    /\ EnvOverride
    /\ keyFile \in WellFormedKeys /\ keyFile # envKey
    /\ op.n >= 2
    /\ ret.name = "getApiKey" /\ ret.value = envKey

\* ------------------------------------------------------------------------
\* SpecLogin: one run of "auth login" against the service (commands/auth.ts)
\* ------------------------------------------------------------------------

InitLogin ==
    /\ InitPipeline
    /\ InitProc
    /\ envKey \in {NoEnv, KeyA, KeyMax, KeyShort}
    /\ keyFile \in {NoFile, KeyB}
    /\ config \in {DefaultConfig, [DefaultConfig EXCEPT !.workspaceId = "w0"]}
    /\ entries = <<>>
    /\ projects = <<>>
    /\ workspaces \in {<<>>, <<W1>>, <<W2, W1>>}

\* options.key: absent, or what the user passed with --key
LoginOptions == {<<>>, KeyA, KeyMax, KeyShort, KeyPadded}

\* what the prompt lets through: validate() refuses everything else
PromptAnswers ==
    {input \in {KeyB, KeyPadded, KeyDash, <<" ">>} :
        Len(Trim(input)) # 0 /\ isValidApiKey(Trim(input))}

ExitCode(code) == <<code>>

\* the inner catch without its removeApiKey
loginCatch_KeepsKey(error) ==
    /\ keyFile' = keyFile
    /\ ret' = error
    /\ exitCode' = ExitCode(1)
    /\ pc' = "exited"
    /\ req' = IdleReq
    /\ resp' = NoResp
    /\ UNCHANGED <<lastRequestTime, sent, op>>

\* lines 75-84: the inner catch removes the key and rethrows, the outer one
\* reports the failure and exits
loginCatch(error) ==
    /\ removeApiKey
    /\ ret' = error
    /\ exitCode' = ExitCode(1)
    /\ pc' = "exited"
    /\ req' = IdleReq
    /\ resp' = NoResp
    /\ UNCHANGED <<lastRequestTime, sent, op>>

\* lines 9-52: the key is taken from the option or the prompt, checked and
\* stored
login ==
    \E key \in LoginOptions, answer \in PromptAnswers :
        /\ pc = "idle"
        /\ LET apiKey == IF Truthy(key) THEN key ELSE Trim(answer)
           IN  /\ cmd' = [NoCmd EXCEPT !.name = "login", !.key = apiKey]
               /\ IF ~Truthy(apiKey) \/ ~isValidApiKey(apiKey)
                  THEN /\ exitCode' = ExitCode(1)
                       /\ pc' = "exited"
                       /\ keyFile' = keyFile
                  ELSE /\ setApiKey(apiKey)
                       /\ pc' = "login_store"
                       /\ exitCode' = exitCode
        /\ UNCHANGED <<pipelineVars, envKey, concurrentVars, config, serviceVars, op, ret, lastIndex>>

\* lines 52-56: setApiKey is over (the key is in the file); testConnection
\* is called
loginStored ==
    /\ pc = "login_store"
    /\ op' = NewOp("testConnection", op.n + 1)
    /\ pc' = "login_test"
    /\ Issue("GET", Endpoint("user", 0), NoBody, NewOp("testConnection", op.n + 1))
    /\ ret' = NoRet
    /\ UNCHANGED <<now, storeVars, concurrentVars, serviceVars, exitCode, cliVars>>

\* lines 56-60: testConnection is over; getWorkspaces is called
loginTested ==
    /\ pc = "login_test"
    /\ req.phase = "done"
    /\ IF resp.ok
       THEN /\ ret' = Returned("testConnection")
            /\ op' = NewOp("getWorkspaces", op.n + 1)
            /\ pc' = "login_workspaces"
            /\ Issue("GET", Endpoint("workspaces", 0), NoBody,
                     NewOp("getWorkspaces", op.n + 1))
            /\ UNCHANGED <<keyFile, exitCode>>
       ELSE loginCatch(Threw("testConnection", "Connection test failed: ",
                             resp.error, resp.raw))
    /\ UNCHANGED <<now, envKey, concurrentVars, config, serviceVars, cliVars>>

\* a login that takes the first workspace of any list that is not empty
loginWorkspaces_FirstOfAny ==
    /\ pc = "login_workspaces"
    /\ req.phase = "done"
    /\ IF resp.ok
       THEN /\ LET list == resp.data.list
               IN  config' = IF Len(list) >= 1
                             THEN [config EXCEPT !.workspaceId = list[1].id]
                             ELSE config
            /\ ret' = Returned("getWorkspaces")
            /\ pc' = "finished"
            /\ req' = IdleReq
            /\ resp' = NoResp
            /\ UNCHANGED <<lastRequestTime, sent, op, keyFile, exitCode>>
       ELSE /\ loginCatch(Threw("getWorkspaces", "", resp.error, resp.raw))
            /\ config' = config
    /\ UNCHANGED <<now, envKey, concurrentVars, serviceVars, cliVars>>

\* lines 60-73: getWorkspaces is over; a single workspace becomes the default
loginWorkspaces ==
    /\ pc = "login_workspaces"
    /\ req.phase = "done"
    /\ IF resp.ok
       THEN /\ LET list == resp.data.list
               IN  config' = IF Len(list) = 1
                             THEN [config EXCEPT !.workspaceId = list[1].id]
                             ELSE config
            /\ ret' = Returned("getWorkspaces")
            /\ pc' = "finished"
            /\ req' = IdleReq
            /\ resp' = NoResp
            /\ UNCHANGED <<lastRequestTime, sent, op, keyFile, exitCode>>
       ELSE /\ loginCatch(Threw("getWorkspaces", "", resp.error, resp.raw))
            /\ config' = config
    /\ UNCHANGED <<now, envKey, concurrentVars, serviceVars, cliVars>>

NextLogin ==
    \/ Sleep
    \/ Intercept
    \/ RespondNothing
    \/ RespondFailure
    \/ RespondRead
    \/ login
    \/ loginStored
    \/ loginTested
    \/ loginWorkspaces

SpecLogin == InitLogin /\ [][NextLogin]_vars

\* login got as far as storing the key and then failed
LoginFailedAfterStore == pc = "exited" /\ op.n >= 1

\* C10: if during login the connectivity check, or the workspace listing
\* after it, fails, the key login stored is removed, no key file is left,
\* and the failure is reported with exit code 1.
C10_FailedLoginRemovesKey ==
    /\ LoginFailedAfterStore
          => /\ keyFile = NoFile
             /\ exitCode = ExitCode(1)
             /\ ret.status = "error"
             /\ ret.name \in {"testConnection", "getWorkspaces"}
    /\ pc \in {"login_test", "login_workspaces"}
          => (keyFile # NoFile /\ exitCode = NoExit)

\* C10, witness: the connectivity check passed, the workspace listing was
\* answered with a failure status, and login has exited with no key file
C10_Witness ==
    /\ LoginFailedAfterStore
    /\ ret.name = "getWorkspaces" /\ ret.raw.kind = "response"
    /\ Len(sent) = 2
    /\ keyFile = NoFile /\ exitCode = ExitCode(1)

\* login has come to its end without a failure
LoginSucceeds == pc = "login_workspaces" /\ pc' = "finished"

\* C11: on a successful login the configured workspace id becomes the listed
\* workspace if and only if exactly one workspace is returned; with none or
\* several it is left as it was (and no other step of login touches it).
C11_WorkspaceSetIffExactlyOne ==
    [][ /\ LoginSucceeds =>
              config' = IF Len(workspaces) = 1
                        THEN [config EXCEPT !.workspaceId = workspaces[1].id]
                        ELSE config
        /\ ~LoginSucceeds => config' = config ]_vars

\* C11, witness: login has succeeded with one workspace listed, and that
\* workspace is the configured one
C11_Witness ==
    /\ pc = "finished"
    /\ Len(workspaces) = 1
    /\ config.workspaceId = workspaces[1].id
    /\ keyFile # NoFile

\* login has ended in a failure (exit code 1)
LoginFailed == cmd.name = "login" /\ pc = "exited"

\* what the key file may hold before a login
StoredBefore == Keys \cup {NoFile}

\* login's continuations are promise reactions and timer callbacks: the
\* event loop runs each one that is pending
SpecLoginFair == SpecLogin /\ WF_vars(NextLogin)

\* C27: a login that fails leaves the credential store as it was before the
\* attempt: the key file holds what it held when login began
C27_FailedLoginKeepsStoredKey ==
    \A k \in StoredBefore : keyFile = k => [](LoginFailed => keyFile = k)

\* login has reported success
LoginSucceeded == cmd.name = "login" /\ pc = "finished"

\* C28: when login reports success, the key it persisted is the key that
\* the connectivity check sent to the service and the service accepted,
\* whether or not CLOCKIFY_API_KEY is set
C28_PersistedKeyIsTestedKey ==
    LoginSucceeded =>
        /\ sent[1].endpoint.path = "user"
        /\ sent[1].key \in AcceptedKeys
        /\ keyFile = sent[1].key
        /\ keyFile = cmd.key

\* ------------------------------------------------------------------------
\* Claims about stopTimer, checked under SpecStop
\* ------------------------------------------------------------------------

\* the requests that operation number n dispatched, in order
SentBy(n) == SelectSeq(sent, LAMBDA r : r.opn = n)

\* the entries of a list that have no end timestamp
LackingEnd(list) == {i \in 1..Len(list) : list[i].end = NoTime}

\* the update requests stopTimer number n dispatched
UpdatesBy(n) == SelectSeq(sent, LAMBDA r : r.opn = n /\ r.method = "PUT")

\* stopTimer is the operation in hand and its entry list came back
StopListed == op.name = "stopTimer" /\ op.listed

\* C2: when the list stopTimer fetched holds exactly one entry with no end
\* timestamp, stopTimer issues exactly one update request, addressed to that
\* entry's id, and the end it sends is not before that entry's start.
C2_OneRunningOneUpdate ==
    (StopListed /\ Cardinality(LackingEnd(op.timeEntries)) = 1)
    => LET e == op.timeEntries[CHOOSE i \in LackingEnd(op.timeEntries) : TRUE]
           puts == UpdatesBy(op.n)
       IN  /\ Len(puts) <= 1
           /\ pc = "idle" => Len(puts) = 1
           /\ \A i \in 1..Len(puts) :
                 /\ puts[i].endpoint = Endpoint("time-entry", e.id)
                 /\ puts[i].body.end >= e.start
                 /\ puts[i].body.end # NoTime

\* C2, witness: stopTimer has ended after fetching a list of two entries of
\* which the second is the only one running, and its update went out
C2_Witness ==
    /\ StopListed /\ pc = "idle"
    /\ Len(op.timeEntries) = 2 /\ LackingEnd(op.timeEntries) = {2}
    /\ Len(UpdatesBy(op.n)) = 1

\* C3: when the list stopTimer fetched holds no entry lacking an end
\* timestamp, stopTimer fails with 'No running timer found' and issues no
\* update request.
C3_NoneRunningNoUpdate ==
    (StopListed /\ LackingEnd(op.timeEntries) = {})
    => /\ pc = "idle"
       /\ ret.status = "error" /\ ret.error = MsgNoRunningTimer
       /\ ret.raw = NoError
       /\ UpdatesBy(op.n) = <<>>
       /\ Len(SentBy(op.n)) = 1

\* C3, witness: stopTimer has ended on a list that holds an entry, with an
\* end timestamp
C3_Witness ==
    /\ StopListed /\ pc = "idle"
    /\ Len(op.timeEntries) = 1 /\ LackingEnd(op.timeEntries) = {}
    /\ ret.error = MsgNoRunningTimer

\* C4: when the running entry has no project and the project list cannot be
\* fetched, whatever the error, the stop goes on: the update for the running
\* entry is issued with projectId null, and the error of the project fetch
\* is not thrown to the caller.
C4_ProjectFailureSwallowed ==
    (op.name = "stopTimer" /\ op.projectsFailed)
    => /\ pc \in {"stop_update", "idle"}
       /\ pc = "stop_update" =>
             /\ ret = NoRet
             /\ req.method = "PUT"
             /\ req.endpoint = Endpoint("time-entry", op.runningEntry.id)
             /\ req.body.projectId = NullId
       /\ (pc = "idle" \/ req.phase \in {"inflight", "done"}) =>
             /\ Len(UpdatesBy(op.n)) = 1
             /\ UpdatesBy(op.n)[1].endpoint = Endpoint("time-entry", op.runningEntry.id)
             /\ UpdatesBy(op.n)[1].body.projectId = NullId

\* C4, witness: the project fetch was answered 403, and stopTimer has
\* returned the stopped entry all the same
C4_Witness ==
    /\ op.name = "stopTimer" /\ op.projectsFailed
    /\ pc = "idle" /\ ret.status = "ok"
    /\ \E i \in 1..Len(entries) :
          entries[i].id = op.runningEntry.id /\ entries[i].end # NoTime

\* the place of the first entry of the list that lacks an end timestamp
FirstLackingEnd(list) ==
    CHOOSE i \in LackingEnd(list) : \A j \in LackingEnd(list) : i <= j

\* C24: when several entries of the fetched list lack an end timestamp,
\* stopTimer updates the first of them in the order of the list, and that
\* entry only
C24_FirstOfSeveralOnly ==
    (StopListed /\ Cardinality(LackingEnd(op.timeEntries)) >= 2)
    => LET first == op.timeEntries[FirstLackingEnd(op.timeEntries)]
           puts == UpdatesBy(op.n)
       IN  /\ Len(puts) <= 1
           /\ pc = "idle" => Len(puts) = 1
           /\ \A i \in 1..Len(puts) :
                 puts[i].endpoint = Endpoint("time-entry", first.id)
           /\ pc \in {"stop_projects", "stop_update"} => op.runningEntry = first

\* C24, witness: of two entries without an end, stopTimer has stopped the
\* first, and the second still runs on the service
C24_Witness ==
    /\ StopListed /\ pc = "idle" /\ ret.status = "ok"
    /\ LackingEnd(op.timeEntries) = {1, 2}
    /\ Len(UpdatesBy(op.n)) = 1
    /\ LackingEnd(entries) = {2}
    /\ entries[1].id = op.timeEntries[1].id

\* two ids are the same reference: equal, or both missing
SameId(a, b) == a = b \/ (Falsy(a) /\ Falsy(b))

\* C25: the update stopTimer submits changes only the end timestamp, and
\* the project when the running entry had none: start, billable flag,
\* description, task and tags are those of the running entry as fetched,
\* and a project the entry has is never replaced
C25_UpdateChangesOnlyEnd ==
    (StopListed /\ LackingEnd(op.timeEntries) # {})
    => LET fetched == op.timeEntries[FirstLackingEnd(op.timeEntries)]
           puts == UpdatesBy(op.n)
       IN  \A i \in 1..Len(puts) :
              /\ puts[i].body.start = fetched.start
              /\ puts[i].body.billable = fetched.billable
              /\ puts[i].body.description = fetched.description
              /\ SameId(puts[i].body.taskId, fetched.taskId)
              /\ puts[i].body.tagIds = fetched.tagIds
              /\ puts[i].body.end # NoTime
              /\ ~Falsy(fetched.projectId)
                    => puts[i].body.projectId = fetched.projectId

\* C25, witness: stopTimer has stopped a billable entry with a project, a
\* task and a tag, and the service holds it with all of them
C25_Witness ==
    /\ StopListed /\ pc = "idle" /\ ret.status = "ok"
    /\ Len(UpdatesBy(op.n)) = 1
    /\ \E i \in 1..Len(entries) :
          /\ entries[i].id = op.runningEntry.id
          /\ entries[i].end # NoTime
          /\ entries[i].billable /\ entries[i].taskId = "t1"
          /\ entries[i].tagIds = <<"g1">> /\ entries[i].projectId = "p2"

\* ------------------------------------------------------------------------
\* Claims about the request pipeline, checked under SpecApi
\* ------------------------------------------------------------------------

\* C5: whenever the key getApiKey returns is present but malformed (its
\* length is outside 40..60 or it holds a non-alphanumeric character), the
\* request interceptor fails before dispatch: no request reaches the service.
C5_MalformedKeyNeverDispatched ==
    (Truthy(getApiKey) /\ Malformed(getApiKey)) => sent = <<>>

\* C5, witness: with a malformed key in place, an operation has run to its
\* end and was stopped by the request interceptor
C5_Witness ==
    /\ Truthy(getApiKey) /\ Malformed(getApiKey)
    /\ ret.status = "error" /\ ret.raw.kind = "thrown"
    /\ lastRequestTime > 0

\* C6: when the request interceptor rejects a malformed key, the error that
\* reaches the caller of the operation is 'Invalid API key format detected',
\* not the generic transport failure.
C6_InvalidKeyFormatReachesCaller ==
    (ret.status = "error" /\ ret.raw.kind = "thrown")
        => (ret.error = MsgInvalidKeyFormat /\ ret.error # MsgGeneric)

\* the class the claim gives a failure, by HTTP status alone
ExpectedMessage(raw) ==
    CASE raw.kind = "response" /\ raw.status = 401 -> MsgAuthenticationFailed
      [] raw.kind = "response" /\ raw.status = 403 -> MsgAccessDenied
      [] raw.kind = "response" /\ raw.status = 429 -> MsgRateLimited
      [] raw.kind = "response" /\ raw.status = 404 -> MsgNotFound
      [] raw.kind = "response" /\ raw.status >= 500 -> MsgServerError
      [] raw.kind \in {"response", "noresponse"} -> MsgGeneric

\* C7: every failed call raises one classified error whose class is decided
\* by the HTTP status alone (401, 403, 429, 404, >= 500, anything else
\* generic), whatever the response body: both where the chain hands the
\* error over and where the operation's caller catches it.
C7_ClassifiedByStatusAlone ==
    /\ (req.phase = "done" /\ ~resp.ok /\ resp.raw.kind \in {"response", "noresponse"})
          => resp.error = ExpectedMessage(resp.raw)
    /\ (ret.status = "error" /\ ret.raw.kind \in {"response", "noresponse"})
          => ret.error = ExpectedMessage(ret.raw)
    /\ (req.phase = "done" /\ resp.ok) => resp.error = ""

\* C7, witness: a call answered 500 with a body that carries internal detail
\* has been classified
C7_Witness ==
    /\ ret.status = "error"
    /\ ret.raw.kind = "response" /\ ret.raw.status = 500
    /\ ret.raw.body = "internal detail"
    /\ ret.error = MsgServerError

StartTimerCalled == op'.name = "startTimer" /\ op'.n = op.n + 1

\* C23: for every TimeEntryRequest passed to startTimer, the entry that is
\* submitted has its start timestamp equal to the time of the call and
\* carries no end timestamp
C23_StartTimerSubmitsNowAndNoEnd ==
    [][StartTimerCalled =>
          /\ req'.method = "POST"
          /\ req'.body.start = now
          /\ req'.body.end = NoTime]_vars

\* ------------------------------------------------------------------------
\* The timer commands and "auth status" (commands/timer.ts, commands/auth.ts)
\* ------------------------------------------------------------------------

\* durationMinutes * 60000
MsPerMinute == 60000

\* what the commands print
SaidNotAuthenticated  == "Not authenticated"
SaidNoWorkspace       == "No workspace configured"
SaidFailed            == "Failed"
SaidAlreadyRunning    == "Timer already running"
SaidStarted           == "Timer started"
SaidNoTimerRunning    == "No timer currently running"
SaidStopped           == "Timer stopped"
SaidRunning           == "Timer is running"
SaidAdded             == "Time entry added"
SaidAuthenticated     == "Authenticated"
SaidInvalid           == "Authentication invalid"
SaidNoCredentials     == "No credentials found to remove"
SaidRemoved           == "Credentials removed successfully"
SaidNotRemoved        == "Could not remove credentials from keychain"

\* --description, --project and the duration argument as the user may give them
Descriptions == {<<>>, <<"f","i","x">>, <<"<"," ","a","&","b">>}
ProjectOptions == {<<>>, <<"w","E">>, <<"p","1">>, <<"z">>}
Durations == {<<"2">>, <<"1",".","5","h">>, <<"a","b","c">>, <<" ">>, <<"1","h","h">>}

\* the characters of a project id
IdText == [p1 |-> <<"p","1">>, p2 |-> <<"p","2">>, p3 |-> <<"p","3">>]

\* process.exit(1) after a message
Exit(c, said) ==
    /\ cmd' = [c EXCEPT !.at = "over", !.said = said]
    /\ exitCode' = ExitCode(1)
    /\ UNCHANGED <<pipelineVars, storeVars, concurrentVars, serviceVars, pc, op, ret>>

\* the command returns after a message
Return(c, said) ==
    /\ cmd' = [c EXCEPT !.at = "over", !.said = said]
    /\ UNCHANGED <<pipelineVars, storeVars, concurrentVars, serviceVars, procVars>>

\* await clockifyAPI.<operation>(...)
Await(c, at, operation) ==
    /\ operation
    /\ cmd' = [c EXCEPT !.at = at]

\* the awaited operation is over
Back(name, at) ==
    /\ cmd.name = name /\ cmd.at = at
    /\ pc = "idle" /\ ret.status # "none"

\* entry.end as the commands read it
TopLevelEnd(entry) == IF cmd.topLevel THEN entry.end ELSE NoTime

\* currentEntries.find(entry => !entry.end)
CurrentRunning(currentEntries) ==
    LET lacking == {i \in 1..Len(currentEntries) :
                       TopLevelEnd(currentEntries[i]) = NoTime}
    IN  IF lacking = {} THEN NoEntry ELSE currentEntries[Min(lacking)]

\* projects.find(p => p.name.toLowerCase().includes(option.toLowerCase())
\*                    || p.id === option): the id of the project, "" if none
FindProject(list, option) ==
    LET found == {i \in 1..Len(list) :
                     \/ Includes(ToLower(list[i].name), ToLower(option))
                     \/ IdText[list[i].id] = option}
    IN  IF found = {} THEN "" ELSE list[Min(found)].id

\* options.description ? sanitizeInput(options.description) : ''
DescriptionOf(description) ==
    IF description # <<>> THEN sanitizeInput(description) ELSE <<>>

\* the checks every timer command starts with; exits tells whether a
\* failed check ends the process or only the command
Checked(c, exits, go) ==
    /\ IF ~hasApiKey
       THEN IF exits THEN Exit(c, SaidNotAuthenticated)
                     ELSE Return(c, SaidNotAuthenticated)
       ELSE IF Falsy(config.workspaceId)
       THEN IF exits THEN Exit(c, SaidNoWorkspace)
                     ELSE Return(c, SaidNoWorkspace)
       ELSE go
    /\ lastIndex' = lastIndex

\* const user = await getCurrentUser(); then getTimeEntries is awaited
User ==
    /\ IF ret.status = "error" THEN Exit(cmd, SaidFailed)
       ELSE Await([cmd EXCEPT !.userId = ret.value.user], "entries", getTimeEntries)
    /\ lastIndex' = lastIndex

\* the project list is back: the request takes the project's id
Projects(name) ==
    /\ IF ret.status = "error" THEN Exit(cmd, SaidFailed)
       ELSE LET project == FindProject(ret.value.list, cmd.project)
                timeEntry == IF project # ""
                             THEN [cmd.timeEntry EXCEPT !.projectId = project]
                             ELSE cmd.timeEntry
            IN  Await([cmd EXCEPT !.timeEntry = timeEntry], "create",
                      IF name = "start" THEN startTimerOf(timeEntry)
                      ELSE createTimeEntryOf(timeEntry))
    /\ lastIndex' = lastIndex

\* the last awaited operation is over
Done(said) ==
    /\ IF ret.status = "error" THEN Exit(cmd, SaidFailed) ELSE Return(cmd, said)
    /\ lastIndex' = lastIndex

\* ---- clockify start ------------------------------------------------------

timerStart ==
    \E description \in Descriptions, project \in ProjectOptions, topLevel \in BOOLEAN :
        cmd = NoCmd /\ pc = "idle" /\
        LET c == [NoCmd EXCEPT !.name = "start", !.description = description,
                               !.project = project, !.topLevel = topLevel]
        IN  Checked(c, TRUE, Await(c, "user", getCurrentUser))

timerStartUser == Back("start", "user") /\ User

timerStartEntries ==
    /\ Back("start", "entries")
    /\ IF ret.status = "error" THEN Exit(cmd, SaidFailed)
       ELSE LET runningEntry == CurrentRunning(ret.value.list)
                timeEntry == [NoEntry EXCEPT !.start = now,
                                !.description = DescriptionOf(cmd.description),
                                !.billable = config.billableByDefault]
                c == [cmd EXCEPT !.timeEntry = timeEntry]
            IN  IF runningEntry # NoEntry THEN Return(cmd, SaidAlreadyRunning)
                ELSE IF cmd.project # <<>> THEN Await(c, "projects", getProjects)
                ELSE Await(c, "create", startTimerOf(timeEntry))
    /\ lastIndex' = lastIndex

timerStartProjects == Back("start", "projects") /\ Projects("start")

timerStartDone == Back("start", "create") /\ Done(SaidStarted)

\* ---- clockify stop -------------------------------------------------------

timerStop ==
    \E topLevel \in BOOLEAN :
        cmd = NoCmd /\ pc = "idle" /\
        LET c == [NoCmd EXCEPT !.name = "stop", !.topLevel = topLevel]
        IN  Checked(c, TRUE, Await(c, "user", getCurrentUser))

timerStopUser == Back("stop", "user") /\ User

timerStopEntries ==
    /\ Back("stop", "entries")
    /\ IF ret.status = "error" THEN Exit(cmd, SaidFailed)
       ELSE LET runningEntry == CurrentRunning(ret.value.list)
            IN  IF runningEntry = NoEntry
                THEN Return(cmd, SaidNoTimerRunning)
                ELSE Await([cmd EXCEPT !.runningEntry = runningEntry],
                           "stopTimer", stopTimer)
    /\ lastIndex' = lastIndex

timerStopDone == Back("stop", "stopTimer") /\ Done(SaidStopped)

\* ---- clockify status -----------------------------------------------------

\* a status that asks the service before it looks for a key
timerStatus_NoChecks ==
    \E topLevel \in BOOLEAN :
        /\ cmd = NoCmd /\ pc = "idle"
        /\ Await([NoCmd EXCEPT !.name = "status", !.topLevel = topLevel],
                 "user", getCurrentUser)
        /\ lastIndex' = lastIndex

timerStatus ==
    \E topLevel \in BOOLEAN :
        cmd = NoCmd /\ pc = "idle" /\
        LET c == [NoCmd EXCEPT !.name = "status", !.topLevel = topLevel]
        IN  Checked(c, FALSE, Await(c, "user", getCurrentUser))

timerStatusUser == Back("status", "user") /\ User

timerStatusEntries ==
    /\ Back("status", "entries")
    /\ IF ret.status = "error" THEN Exit(cmd, SaidFailed)
       ELSE IF CurrentRunning(ret.value.list) = NoEntry
       THEN Return(cmd, SaidNoTimerRunning)
       ELSE Return(cmd, SaidRunning)
    /\ lastIndex' = lastIndex

\* ---- clockify add <duration> --------------------------------------------

\* a command that sends its entry before it parses the duration
timerAdd_ParseLate ==
    \E duration \in Durations, description \in Descriptions, project \in ProjectOptions :
        cmd = NoCmd /\ pc = "idle" /\
        LET c == [NoCmd EXCEPT !.name = "add", !.duration = duration,
                               !.description = description, !.project = project]
            timeEntry == [NoEntry EXCEPT !.start = now, !.end = now,
                            !.description = DescriptionOf(description),
                            !.billable = config.billableByDefault]
        IN  Checked(c, TRUE,
                    Await([c EXCEPT !.timeEntry = timeEntry], "create",
                          createTimeEntryOf(timeEntry)))

timerAdd ==
    \E duration \in Durations, description \in Descriptions, project \in ProjectOptions :
        cmd = NoCmd /\ pc = "idle" /\
        LET c == [NoCmd EXCEPT !.name = "add", !.duration = duration,
                               !.description = description, !.project = project]
            durationMinutes == parseDuration(duration)
            endTime == now
            startTime == endTime - durationMinutes.minutes * MsPerMinute
            timeEntry == [NoEntry EXCEPT !.start = startTime, !.end = endTime,
                            !.description = DescriptionOf(description),
                            !.billable = config.billableByDefault]
            d == [c EXCEPT !.timeEntry = timeEntry]
        IN  Checked(c, TRUE,
                    IF ~durationMinutes.ok THEN Exit(c, SaidFailed)
                    ELSE IF project # <<>> THEN Await(d, "projects", getProjects)
                    ELSE Await(d, "create", createTimeEntryOf(timeEntry)))

timerAddProjects == Back("add", "projects") /\ Projects("add")

timerAddDone == Back("add", "create") /\ Done(SaidAdded)

\* ---- clockify auth status -----------------------------------------------

authStatus ==
    /\ cmd = NoCmd /\ pc = "idle"
    /\ IF ~hasApiKey
       THEN Return([NoCmd EXCEPT !.name = "authStatus"], SaidNotAuthenticated)
       ELSE Await([NoCmd EXCEPT !.name = "authStatus"], "user", getCurrentUser)
    /\ lastIndex' = lastIndex

authStatusUser ==
    /\ Back("authStatus", "user")
    /\ IF ret.status = "error" THEN Return(cmd, SaidInvalid)
       ELSE Await(cmd, "workspaces", getWorkspaces)
    /\ lastIndex' = lastIndex

authStatusWorkspaces ==
    /\ Back("authStatus", "workspaces")
    /\ IF ret.status = "error" THEN Return(cmd, SaidInvalid)
       ELSE Return(cmd, SaidAuthenticated)
    /\ lastIndex' = lastIndex

\* ---- clockify auth logout -----------------------------------------------

\* lines 87-109: nothing to remove, or the key file is removed; a key that
\* comes from the environment alone leaves removeApiKey nothing to remove
authLogout ==
    /\ cmd = NoCmd /\ pc = "idle"
    /\ IF ~hasApiKey
       THEN Return([NoCmd EXCEPT !.name = "authLogout"], SaidNoCredentials)
       ELSE /\ removeApiKey
            /\ cmd' = [NoCmd EXCEPT !.name = "authLogout", !.at = "over",
                                    !.said = IF keyFile # NoFile THEN SaidRemoved
                                             ELSE SaidNotRemoved]
            /\ UNCHANGED <<pipelineVars, envKey, concurrentVars, config, serviceVars, procVars>>
    /\ lastIndex' = lastIndex

\* ------------------------------------------------------------------------
\* SpecCli: one command of the CLI runs against the service
\* ------------------------------------------------------------------------

\* an entry whose description was typed into another client of the service
Elsewhere(id, end) ==
    [Earlier(id, 0, end, "p1") EXCEPT !.description = <<"a","<","b",">">>]

CliEntryLists ==
    { <<>>,
      <<Earlier(1, 0, 0, "p1")>>,
      <<Earlier(1, minRequestInterval, NoTime, "")>>,
      <<Earlier(2, 0, minRequestInterval, ""), Elsewhere(1, NoTime)>> }

CliKeyStores ==
    { <<NoEnv, KeyA>>, <<NoEnv, NoFile>>, <<<<>>, NoFile>>, <<KeyShort, KeyA>>,
      <<NoEnv, KeyMax>> }

InitCli ==
    /\ InitPipeline
    /\ InitProc
    /\ \E store \in CliKeyStores : envKey = store[1] /\ keyFile = store[2]
    /\ config \in {DefaultConfig, [DefaultConfig EXCEPT !.workspaceId = "w1"]}
    /\ entries \in CliEntryLists
    /\ projects \in {<<>>, <<P2, P1>>}
    /\ workspaces = <<W1>>

NextCli ==
    \/ Sleep
    \/ Intercept
    \/ RespondNothing
    \/ RespondFailure
    \/ RespondRead
    \/ RespondCreateEntry
    \/ RespondUpdateEntry
    \/ ReturnSingle
    \/ stopTimerEntries
    \/ stopTimerProjects
    \/ stopTimerUpdate
    \/ timerStart
    \/ timerStartUser
    \/ timerStartEntries
    \/ timerStartProjects
    \/ timerStartDone
    \/ timerStop
    \/ timerStopUser
    \/ timerStopEntries
    \/ timerStopDone
    \/ timerStatus
    \/ timerStatusUser
    \/ timerStatusEntries
    \/ timerAdd
    \/ timerAddProjects
    \/ timerAddDone
    \/ authStatus
    \/ authStatusUser
    \/ authStatusWorkspaces
    \/ authLogout
    \/ cmd = NoCmd /\ login
    \/ loginStored
    \/ loginTested
    \/ loginWorkspaces

SpecCli == InitCli /\ [][NextCli]_vars

\* ------------------------------------------------------------------------
\* Claims about the commands (SpecCli)
\* ------------------------------------------------------------------------

\* a key is present: the environment variable holds text, or the key file
\* exists and holds more than whitespace
ApiKeyPresent ==
    \/ envKey # NoEnv /\ envKey # <<>>
    \/ keyFile # NoFile /\ Trim(keyFile) # <<>>

WorkspaceConfigured == config.workspaceId # ""

WorkspaceScoped == cmd.name \in {"start", "stop", "status", "add"}

NothingDispatched == sent = <<>> /\ req.phase \in {"idle", "done"}

\* C12: start, stop, status, add and auth status dispatch no request unless
\* an API key is present; start, stop, status and add dispatch none unless a
\* workspace id is configured; without a key, status says "Not authenticated"
C12_NoRequestWithoutKeyOrWorkspace ==
    /\ (WorkspaceScoped \/ cmd.name = "authStatus") /\ ~ApiKeyPresent
          => NothingDispatched /\ op.n = 0
    /\ WorkspaceScoped /\ ~WorkspaceConfigured
          => NothingDispatched /\ op.n = 0
    /\ cmd.name = "status" /\ ~ApiKeyPresent
          => cmd.at = "over" /\ cmd.said = SaidNotAuthenticated

\* status ran without a key and said so; nothing left for the service
C12_Witness ==
    /\ cmd.name = "status" /\ cmd.at = "over"
    /\ ~ApiKeyPresent /\ WorkspaceConfigured
    /\ cmd.said = SaidNotAuthenticated
    /\ sent = <<>>

\* no entry of the user lacks an end timestamp
NoEntryLacksEnd == \A i \in 1..Len(entries) : entries[i].end # NoTime

\* stop ran to its end with nothing to stop: the entry list came back, to the
\* command and, where the command went on, to stopTimer
NothingToStop ==
    /\ cmd.name = "stop" /\ cmd.at = "over"
    /\ NoEntryLacksEnd
    /\ \/ ret.name = "getTimeEntries" /\ ret.status = "ok"
       \/ ret.name = "stopTimer" /\ ret.status = "error" /\ ret.raw = NoError

\* C13: when stop runs and no entry of the user lacks an end timestamp, the
\* command returns normally (no exit with code 1) and sends no update
C13_NothingToStopReturnsNormally ==
    NothingToStop =>
        /\ exitCode = NoExit
        /\ \A i \in 1..Len(sent) : sent[i].method # "PUT"

\* the command that now runs was given an argument its local check refuses:
\* add a duration for which parseDuration throws, login a key that is
\* missing or that isValidApiKey refuses
RefusedLocally(c) ==
    \/ c.name = "add" /\ ~parseDuration(c.duration).ok
    \/ c.name = "login" /\ (c.key = <<>> \/ ~isValidApiKey(c.key))

\* C14: a local validation failure never reaches the network: add with a
\* duration that does not parse, and login with a malformed key, start no
\* request, and such a login leaves the key file as it was
C14_LocalFailureNeverDispatched ==
    [][RefusedLocally(cmd') =>
          /\ sent' = <<>>
          /\ req' = IdleReq
          /\ op'.n = 0
          /\ keyFile' = keyFile]_vars

\* add was given "abc" with a key and a workspace in place, and ended in
\* its catch without a request
C14_Witness ==
    /\ cmd.name = "add" /\ cmd.at = "over"
    /\ cmd.duration = <<"a","b","c">>
    /\ hasApiKey /\ WorkspaceConfigured
    /\ exitCode = ExitCode(1)
    /\ sent = <<>>

\* d is an output of sanitizeInput: it holds none of the characters the
\* function removes, nowhere the text its last replace removes, and no more
\* than the 1000 characters its substring keeps. (Every such d is the output
\* for "<" \o d \o "<" or, where d holds the text of the first pattern, for
\* d with the second pattern put inside that text.)
IsSanitized(d) ==
    /\ Len(d) <= MaxSanitizedLen
    /\ \A i \in 1..Len(d) : d[i] \notin DangerousChars
    /\ Occurrences(d, ControlPattern2) = {}

\* the requests that create or update a time entry
EntryWrites ==
    {i \in 1..Len(sent) :
        /\ sent[i].method \in {"POST", "PUT"}
        /\ sent[i].endpoint.path \in {"time-entries", "time-entry"}}

\* C15: every create or update request that carries a description (start's
\* create, add's create, stopTimer's update) carries an output of the
\* sanitization function
C15_WritesCarrySanitizedDescription ==
    \A i \in EntryWrites : IsSanitized(sent[i].body.description)

\* the command has come to its end
CommandOver ==
    \/ cmd.name \in {"start", "stop", "status", "add", "authStatus", "authLogout"}
          /\ cmd.at = "over"
    \/ cmd.name = "login" /\ pc \in {"exited", "finished"}

\* a classified failure occurred during the command: no credentials where
\* the command needs them, no workspace where it needs one, an argument its
\* validation refuses, or a request that failed (transport failure, rejected
\* credentials or another failure status)
ClassifiedFailure ==
    \/ (WorkspaceScoped \/ cmd.name = "authStatus") /\ ~hasApiKey
    \/ WorkspaceScoped /\ ~WorkspaceConfigured
    \/ RefusedLocally(cmd)
    \/ ret.status = "error" /\ ret.raw # NoError

\* the command did what it is for: nothing failed and nothing was thrown
Succeeded == ~ClassifiedFailure /\ ret.status # "error"

\* the exit code of the process: 0 when it ends without process.exit
ExitsWith(code) ==
    IF code = 0 THEN exitCode = NoExit ELSE exitCode = ExitCode(code)

\* C21: each of auth login, auth logout, auth status, start, stop, status
\* and add ends with exit code 0 when it succeeds and with exit code 1 when
\* a classified failure occurred during it
C21_ExitCodeTellsFailure ==
    CommandOver =>
        /\ Succeeded => ExitsWith(0)
        /\ ClassifiedFailure => ExitsWith(1)

\* ------------------------------------------------------------------------
\* SpecTwoClients: start or stop runs while another invocation of the
\* program, a process with a client of its own, runs start or stop for the
\* same user, and then again. The other invocation takes a step wherever
\* the service answers one of its requests; the service lists entries in
\* one shape for both
\* ------------------------------------------------------------------------

\* cli.ts 343-378, the other invocation of start: its list is back and scanned
peerStart ==
    /\ cmd.name # "" /\ peer.at \in {"", "over"}
    /\ peer' = IF CurrentRunning(entries) # NoEntry
               THEN [NoPeer EXCEPT !.name = "start", !.at = "over",
                                   !.said = SaidAlreadyRunning]
               ELSE [NoPeer EXCEPT !.name = "start", !.at = "create"]
    /\ UNCHANGED <<pipelineVars, storeVars, serviceVars, procVars, cliVars, second>>

\* cli.ts 380-403, the other invocation of start: the service answers its
\* POST /time-entries
peerStartCreate ==
    /\ peer.name = "start" /\ peer.at = "create"
    /\ Len(entries) < MaxEntries
    /\ LET created == [NoEntry EXCEPT !.id = FreshId(entries), !.start = now,
                                      !.billable = config.billableByDefault]
       IN  \E i \in 1..(Len(entries) + 1) : entries' = InsertAt(entries, i, created)
    /\ peer' = [peer EXCEPT !.at = "over", !.said = SaidStarted]
    /\ UNCHANGED <<pipelineVars, storeVars, projects, workspaces, procVars, cliVars, second>>

\* cli.ts 425-454, the other invocation of stop: its list is back and scanned
peerStop ==
    /\ cmd.name # "" /\ peer.at \in {"", "over"}
    /\ peer' = IF CurrentRunning(entries) = NoEntry
               THEN [NoPeer EXCEPT !.name = "stop", !.at = "over",
                                   !.said = SaidNoTimerRunning]
               ELSE [NoPeer EXCEPT !.name = "stop", !.at = "stopTimer"]
    /\ UNCHANGED <<pipelineVars, storeVars, serviceVars, procVars, cliVars, second>>

\* api.ts 152-159, the other invocation's stopTimer: its list is back
peerStopTimer ==
    /\ peer.name = "stop" /\ peer.at = "stopTimer"
    /\ peer' = IF FindRunning(entries) = NoEntry
               THEN [peer EXCEPT !.at = "over", !.said = SaidFailed]
               ELSE [peer EXCEPT !.at = "update", !.runningEntry = FindRunning(entries)]
    /\ UNCHANGED <<pipelineVars, storeVars, serviceVars, procVars, cliVars, second>>

\* api.ts 161-189, the other invocation's stopTimer: the service answers
\* its PUT /time-entries/{id}
peerStopUpdate ==
    /\ peer.name = "stop" /\ peer.at = "update"
    /\ peer.runningEntry.id \in EntryIds(entries)
    /\ LET i == IndexOfId(entries, peer.runningEntry.id)
           projectId == IF Falsy(peer.runningEntry.projectId) /\ Len(projects) > 0
                        THEN projects[1].id
                        ELSE peer.runningEntry.projectId
           updated == [stopData(peer.runningEntry, projectId)
                          EXCEPT !.id = peer.runningEntry.id]
       IN  entries' = [entries EXCEPT ![i] = updated]
    /\ peer' = [peer EXCEPT !.at = "over", !.said = SaidStopped]
    /\ UNCHANGED <<pipelineVars, storeVars, projects, workspaces, procVars, cliVars, second>>

InitTwoClients ==
    /\ InitPipeline
    /\ InitProc
    /\ envKey = NoEnv /\ keyFile = KeyA
    /\ config = [DefaultConfig EXCEPT !.workspaceId = "w1"]
    /\ entries \in CliEntryLists
    /\ projects \in {<<>>, <<P2, P1>>}
    /\ workspaces = <<W1>>

NextTwoClients ==
    \/ Sleep
    \/ Intercept
    \/ RespondNothing
    \/ RespondRead
    \/ RespondCreateEntry
    \/ RespondUpdateEntry
    \/ ReturnSingle
    \/ stopTimerEntries
    \/ stopTimerProjects
    \/ stopTimerUpdate
    \/ timerStart
    \/ timerStartUser
    \/ timerStartEntries
    \/ timerStartProjects
    \/ timerStartDone
    \/ timerStop
    \/ timerStopUser
    \/ timerStopEntries
    \/ timerStopDone
    \/ peerStart
    \/ peerStartCreate
    \/ peerStop
    \/ peerStopTimer
    \/ peerStopUpdate

SpecTwoClients == InitTwoClients /\ [][NextTwoClients]_vars

\* C26: in every run of stop, the entry the command's scan of its list found
\* running is the entry stopTimer updates after its own fetch and scan, also
\* when another client stops or starts a timer between the two fetches
C26_ScannedEntryIsUpdated ==
    cmd.name = "stop" =>
        \A i \in 1..Len(sent) :
            sent[i].method = "PUT" => sent[i].endpoint.id = cmd.runningEntry.id

\* C29: of two invocations of start that run at the same time for a user
\* with no running entry, at most one creates an entry: they do not leave
\* the user with more than one entry that lacks an end
C29_AtMostOneStartCreates ==
    ~ /\ cmd.name = "start" /\ cmd.said = SaidStarted
      /\ peer.name = "start" /\ peer.said = SaidStarted
      /\ Cardinality(RunningIndexes(entries)) > 1

\* ------------------------------------------------------------------------
\* SpecConfig: callers of SimpleConfigManager.set, get and reset, one call after
\* another, on a configuration loaded with or without an active workspace
\* ------------------------------------------------------------------------

\* the values a caller may give a key of ClockifyConfig
ConfigValues(key) ==
    CASE key = "workspaceId" -> {"w1", "w2"}
      [] key = "timeFormat" -> {"12h", "24h"}
      [] key = "billableByDefault" -> BOOLEAN

\* set, lines 115-118: this.config[key] = value, then saveConfig
set(key, value) == config' = [config EXCEPT ![key] = value]

\* reset, lines 130-138: this.config is the literal of the defaults, which
\* has no workspaceId, then saveConfig
reset == config' = DefaultConfig

\* loadConfig, lines 24-40: the saved file, or the defaults
InitConfig ==
    /\ InitPipeline
    /\ InitProc
    /\ envKey = NoEnv /\ keyFile = KeyA
    /\ config \in {DefaultConfig, [DefaultConfig EXCEPT !.workspaceId = "w1"]}
    /\ entries = <<>>
    /\ projects = <<>>
    /\ workspaces = <<W1, W2>>

\* configManager.set(key, value)
callSet ==
    \E key \in DOMAIN DefaultConfig :
        \E value \in ConfigValues(key) :
            /\ op.n < MaxChecks
            /\ set(key, value)
            /\ op' = NewOp("set", op.n + 1)
            /\ ret' = Returned("set")
            /\ cmd' = [NoCmd EXCEPT !.name = "set", !.key = <<key>>]
            /\ UNCHANGED <<pipelineVars, envKey, keyFile, concurrentVars, serviceVars,
                           pc, exitCode, lastIndex>>

\* configManager.get(key), lines 108-110
callGet ==
    \E key \in DOMAIN DefaultConfig :
        /\ op.n < MaxChecks
        /\ op' = NewOp("get", op.n + 1)
        /\ ret' = [Returned("get") EXCEPT !.value = <<config[key]>>]
        /\ cmd' = [NoCmd EXCEPT !.name = "get", !.key = <<key>>]
        /\ UNCHANGED <<pipelineVars, storeVars, concurrentVars, serviceVars,
                       pc, exitCode, lastIndex>>

\* configManager.reset()
callReset ==
    /\ op.n < MaxChecks
    /\ reset
    /\ op' = NewOp("reset", op.n + 1)
    /\ ret' = Returned("reset")
    /\ cmd' = [NoCmd EXCEPT !.name = "reset"]
    /\ UNCHANGED <<pipelineVars, envKey, keyFile, concurrentVars, serviceVars,
                   pc, exitCode, lastIndex>>

NextConfig ==
    \/ callSet
    \/ callGet
    \/ callReset

SpecConfig == InitConfig /\ [][NextConfig]_vars

\* a call of reset, or of set for a key other than workspaceId, was made
OtherThanWorkspaceSet ==
    /\ op'.n = op.n + 1
    /\ \/ op'.name = "reset"
       \/ op'.name = "set" /\ cmd'.key # <<"workspaceId">>

\* C30: reset(), and set(k, v) for every key k other than workspaceId, leave
\* the active workspace id of the local configuration as it was
C30_WorkspaceIdChangesOnlyBySet ==
    [][OtherThanWorkspaceSet => config'.workspaceId = config.workspaceId]_vars

\* ------------------------------------------------------------------------
\* validateSecureInput and securelyProcessInput (src/lib/simple-config.ts)
\* ------------------------------------------------------------------------

MsgDangerous == "Input contains potentially dangerous content"

\* the characters of [\x00-\x08\x0B\x0C\x0E-\x1F\x7F-\x9F] in the model
ControlChars == {NUL, US, DEL, APC}

\* \w under the /i flag, in a text already folded to lower case
WordChars == Range(LowerChars) \cup Range(DigitChars) \cup {"_"}

\* DANGEROUS_PATTERNS, in the order of the array
PatternNames == <<"script", "javascript", "on", "data", "vbscript">>

ScriptOpen  == <<"<","s","c","r","i","p","t">>
ScriptClose == <<"<","/","s","c","r","i","p","t",">">>

\* the text of the patterns that are plain text
PatternText ==
    [javascript |-> <<"j","a","v","a","s","c","r","i","p","t",":">>,
     data |-> <<"d","a","t","a",":","t","e","x","t","/","h","t","m","l">>,
     vbscript |-> <<"v","b","s","c","r","i","p","t",":">>]

StartsAt(t, i, lit) ==
    /\ t[i] = lit[1]
    /\ i + Len(lit) - 1 <= Len(t)
    /\ SubSeq(t, i, i + Len(lit) - 1) = lit

\* the first place from `from` on whose character is outside S (past the end
\* of t when there is none)
FirstOutside(t, from, S) ==
    Min({k \in from..(Len(t) + 1) : k = Len(t) + 1 \/ t[k] \notin S})

\* where the match of pattern p that begins at place i of t ends; 0 when no
\* match begins there. t is folded to lower case (the /i flag).
MatchEnd(p, t, i) ==
    IF p = "script"
    THEN \* /<script[\s\S]*?<\/script>/ : up to the first closing tag
         LET closes == {j \in Occurrences(t, ScriptClose) : j >= i + Len(ScriptOpen)}
         IN  IF StartsAt(t, i, ScriptOpen) /\ closes # {}
             THEN Min(closes) + Len(ScriptClose) - 1 ELSE 0
    ELSE IF p = "on"
    THEN \* /on\w+\s*=/
         LET w == FirstOutside(t, i + 2, WordChars)
             e == FirstOutside(t, w, WhiteChars \cup {"\r"})
         IN  IF StartsAt(t, i, <<"o","n">>) /\ w > i + 2 /\ e <= Len(t) /\ t[e] = "="
             THEN e ELSE 0
    ELSE IF StartsAt(t, i, PatternText[p]) THEN i + Len(PatternText[p]) - 1 ELSE 0

\* RegExp.prototype.test of a pattern with the g flag whose lastIndex is
\* last: the search begins at last; a match leaves lastIndex at its end, a
\* failure at 0
Test(p, input, last) ==
    LET t == SubSeq(ToLower(input), 1, Len(input))
        starts == {i \in (last + 1)..Len(input) : MatchEnd(p, t, i) # 0}
    IN  IF starts = {} THEN [matched |-> FALSE, lastIndex |-> 0]
        ELSE [matched |-> TRUE, lastIndex |-> MatchEnd(p, t, Min(starts))]

\* lines 209-213 from pattern k on, with the lastIndex values li
RECURSIVE TestPatterns(_, _, _)
TestPatterns(input, k, li) ==
    IF k > Len(PatternNames) THEN [valid |-> TRUE, lastIndex |-> li]
    ELSE LET p == PatternNames[k]
             r == Test(p, input, li[p])
             next == [li EXCEPT ![p] = r.lastIndex]
         IN  IF r.matched THEN [valid |-> FALSE, lastIndex |-> next]
             ELSE TestPatterns(input, k + 1, next)

\* the value returned, and the lastIndex values the call leaves
validateSecureInput(input, maxLength) ==
    IF Len(input) > maxLength THEN [valid |-> FALSE, lastIndex |-> lastIndex]
    ELSE TestPatterns(input, 1, lastIndex)

\* lines 227-230
Cleaned(input) ==
    Trim(SelectSeq(SelectSeq(input, LAMBDA c : c # NUL),
                   LAMBDA c : c \notin ControlChars))

\* ok: the call returned text; ~ok: it threw MsgDangerous
securelyProcessInput(input, maxLength) ==
    LET cleaned == Cleaned(input)
        checked == validateSecureInput(cleaned, maxLength)
    IN  [ok |-> checked.valid,
         text |-> IF checked.valid THEN Substring(cleaned, maxLength) ELSE <<>>,
         lastIndex |-> checked.lastIndex]

\* ------------------------------------------------------------------------
\* SpecSanitize: the text functions are called, one call after the other, in
\* one process (the RegExp objects of DANGEROUS_PATTERNS live as long as it)
\* ------------------------------------------------------------------------

SanitizeInputs ==
    { <<>>,
      <<"f","i","x"," ","b","u","g">>,
      <<" ","a"," ">>,
      <<"<"," ","a">>,
      <<"J","a","v","a","S","c","r","i","p","t",":","a">>,
      <<"j","a","v","a","s","c","r","i","p","t",":","j","a","v","a","s","c","r","i","p","t",":">>,
      <<"a","<","s","c","r","i","p","t",">","x","<","/","s","c","r","i","p","t",">">>,
      <<"o","n","C","l","i","c","k"," ","=","a">>,
      <<"d","a","t","a",":","t","e","x","t","/","h","t","m","l",",","x">>,
      <<"v","b","s","c","r","i","p","t",":","x">>,
      <<"j","a","v","a",NUL,"s","c","r","i","p","t",":">>,
      <<"a",NUL,US," ">>,
      <<"a",NUL,"-",US,"b">>,
      Cycle(<<"a">>, MAX_DESCRIPTION_LENGTH),
      Cycle(<<"a">>, MAX_DESCRIPTION_LENGTH - 1) \o <<" ","b">>,
      Cycle(<<"a","b"," ">>, MAX_DESCRIPTION_LENGTH + 1) }

InitSanitize ==
    /\ InitPipeline
    /\ InitProc
    /\ envKey = NoEnv /\ keyFile = NoFile
    /\ config = DefaultConfig
    /\ entries = <<>> /\ projects = <<>> /\ workspaces = <<>>

\* one call of a text function: its result is kept in ret
Called(name, input, again, result, li) ==
    /\ op.n < MaxChecks
    /\ op' = NewOp(name, op.n + 1)
    /\ cmd' = [NoCmd EXCEPT !.name = name, !.input = input, !.again = again]
    /\ ret' = result
    /\ lastIndex' = li
    /\ UNCHANGED <<pipelineVars, storeVars, concurrentVars, serviceVars, pc, exitCode>>

Processed(input, again) ==
    LET r == securelyProcessInput(input, MAX_DESCRIPTION_LENGTH)
    IN  Called("securelyProcessInput", input, again,
               IF r.ok
               THEN [Returned("securelyProcessInput") EXCEPT !.value = r.text]
               ELSE Threw("securelyProcessInput", "", MsgDangerous, NoError),
               r.lastIndex)

Sanitized(input, again) ==
    Called("sanitizeInput", input, again,
           [Returned("sanitizeInput") EXCEPT !.value = sanitizeInput(input)],
           lastIndex)

\* the last call was one of function name and returned a text
ReturnedText(name) == cmd.name = name /\ ret.status = "ok"

callSecurelyProcessInput ==
    \E input \in SanitizeInputs :
        /\ pc = "idle"
        /\ Processed(input, FALSE)

\* securelyProcessInput(t), t the text the last call returned
callSecurelyProcessInputAgain ==
    /\ ReturnedText("securelyProcessInput")
    /\ Processed(ret.value, TRUE)

callValidateSecureInput ==
    \E input \in SanitizeInputs :
        pc = "idle" /\
        LET r == validateSecureInput(input, MAX_DESCRIPTION_LENGTH)
        IN  Called("validateSecureInput", input, FALSE,
                   [Returned("validateSecureInput") EXCEPT !.value = <<r.valid>>],
                   r.lastIndex)

callSanitizeInput ==
    \E input \in SanitizeInputs :
        /\ pc = "idle"
        /\ Sanitized(input, FALSE)

\* sanitizeInput(t), t the text the last call returned
callSanitizeInputAgain ==
    /\ ReturnedText("sanitizeInput")
    /\ Sanitized(ret.value, TRUE)

NextSanitize ==
    \/ callSecurelyProcessInput
    \/ callSecurelyProcessInputAgain
    \/ callValidateSecureInput
    \/ callSanitizeInput
    \/ callSanitizeInputAgain

SpecSanitize == InitSanitize /\ [][NextSanitize]_vars

\* ------------------------------------------------------------------------
\* Claims about the text functions (SpecSanitize)
\* ------------------------------------------------------------------------

\* the text holds a match of one of the blocklisted patterns
Blocklisted(t) ==
    \E k \in 1..Len(PatternNames) : Test(PatternNames[k], t, 0).matched

\* C16: securelyProcessInput rejects every input whose cleaned text matches
\* a blocklisted pattern or is longer than the maximum, on every call,
\* whatever calls came before
C16_RejectsOnEveryCall ==
    /\ cmd.name = "securelyProcessInput"
    /\ \/ Blocklisted(Cleaned(cmd.input))
       \/ Len(Cleaned(cmd.input)) > MAX_DESCRIPTION_LENGTH
    => ret.status = "error"

\* C17: sanitizeInput(sanitizeInput(x)) = sanitizeInput(x): a call on the
\* text that sanitizeInput returned returns that text
C17_SanitizeInputIdempotent ==
    cmd.name = "sanitizeInput" /\ cmd.again => ret.value = cmd.input

\* the text is clean: no control characters, trimmed, within the length
\* limit, no blocklisted pattern
Clean(t) ==
    /\ \A i \in 1..Len(t) : t[i] \notin ControlChars
    /\ Trim(t) = t
    /\ Len(t) <= MAX_DESCRIPTION_LENGTH
    /\ ~Blocklisted(t)

\* C18: securelyProcessInput on the text that securelyProcessInput returned
\* for an accepted input returns that text, and clean text is returned
\* unchanged
C18_SecurelyProcessInputIdempotent ==
    /\ cmd.name = "securelyProcessInput" /\ cmd.again
          => ret.status = "ok" /\ ret.value = cmd.input
    /\ cmd.name = "securelyProcessInput" /\ Clean(cmd.input)
          => ret.status = "ok" /\ ret.value = cmd.input

\* ------------------------------------------------------------------------
\* SpecDuration: parseDuration is applied to a literal
\* ------------------------------------------------------------------------

MsgInvalidDuration == "Invalid duration format"

DurationChars == {"0", "1", "5", "h", "H", "m", ".", " "}

DurationLiterals ==
    UNION {[1..k -> DurationChars] : k \in 0..MaxLiteralLen}
    \cup { <<"9","0">>,
           <<"4","5","m">>,
           <<"2","h">>,
           <<"1","h","3","0","m">>,
           <<"1","H","3","0","M">>,
           <<"1","0","h","0","5","m">>,
           <<"1",".","5","h">>,
           <<"0",".","2","5">>,
           <<"1",".","0","2","5","h">>,
           <<"4",".","2","2","5">>,
           <<"1",".","1","2","5","h">>,
           <<"2",".","0","0","8","h">>,
           <<" ","1","h","3","0","m"," ">>,
           <<"a","b","c">>,
           <<"1","h"," ","3","0","m">>,
           <<"1",".","5","m">>,
           <<"-","5">>,
           <<" "," "," "," "," ">> }

InitDuration ==
    /\ InitPipeline
    /\ pc = "idle"
    /\ op = NewOp("", 0)
    /\ ret = NoRet
    /\ exitCode = NoExit
    /\ lastIndex = NoLastIndex
    /\ \E duration \in DurationLiterals : cmd = [NoCmd EXCEPT !.duration = duration]
    /\ envKey = NoEnv /\ keyFile = NoFile
    /\ config = DefaultConfig
    /\ entries = <<>> /\ projects = <<>> /\ workspaces = <<>>

\* parseDuration(cmd.duration): ret keeps the minutes returned, or the
\* literal that the error thrown names
callParseDuration ==
    /\ op.n = 0
    /\ LET r == parseDuration(cmd.duration)
       IN  ret' = IF r.ok
                  THEN [Returned("parseDuration") EXCEPT !.value = <<r.minutes>>]
                  ELSE [Threw("parseDuration", "", MsgInvalidDuration, NoError)
                            EXCEPT !.value = r.literal]
    /\ op' = NewOp("parseDuration", 1)
    /\ cmd' = [cmd EXCEPT !.name = "parseDuration"]
    /\ UNCHANGED <<pipelineVars, storeVars, concurrentVars, serviceVars, pc, exitCode, lastIndex>>

NextDuration == callParseDuration

SpecDuration == InitDuration /\ [][NextDuration]_vars

\* ------------------------------------------------------------------------
\* Claims about parseDuration (SpecDuration)
\* ------------------------------------------------------------------------

\* the forms of a duration: <n>, <n>m, <n>h, <h>h<m>m at place i,
\* <d>.<d> and <d>.<d>h at place i
PlainInteger(s) == IsDigits(s)

UnitOnly(s, unit) ==
    s # <<>> /\ s[Len(s)] = unit /\ IsDigits(SubSeq(s, 1, Len(s) - 1))

HourMinute(s, i) ==
    /\ s[i] = "h" /\ IsDigits(SubSeq(s, 1, i - 1))
    /\ UnitOnly(SubSeq(s, i + 1, Len(s)), "m")

DecimalHours(s, i) ==
    /\ s[i] = "." /\ IsDigits(SubSeq(s, 1, i - 1))
    /\ \/ IsDigits(SubSeq(s, i + 1, Len(s)))
       \/ UnitOnly(SubSeq(s, i + 1, Len(s)), "h")

Recognised(s) ==
    \/ PlainInteger(s)
    \/ UnitOnly(s, "m")
    \/ UnitOnly(s, "h")
    \/ \E i \in 1..Len(s) : HourMinute(s, i) \/ DecimalHours(s, i)

\* C19: a literal that, lower-cased and trimmed, has none of the recognised
\* forms (the empty and the whitespace-only literal among them) makes
\* parseDuration throw the error that names the literal
C19_UnrecognisedLiteralFails ==
    cmd.name = "parseDuration" /\ ~Recognised(Trim(ToLower(cmd.duration)))
        => ret.status = "error" /\ ret.value = cmd.duration

\* parseDuration returned n minutes
Gives(n) == ret.status = "ok" /\ ret.value = <<n>>

\* the digits after the point of the decimal-hours literal s with its
\* point at place i
FractionOf(s, i) ==
    IF s[Len(s)] = "h" THEN SubSeq(s, i + 1, Len(s) - 1)
    ELSE SubSeq(s, i + 1, Len(s))

\* num / den rounded to a whole number, halves up
HalfUp(num, den) == (2 * num + den) \div (2 * den)

\* C20: parseDuration returns n for <n> and <n>m, 60 n for <n>h, 60 h + m
\* for <h>h<m>m, and for <d>.<d> and <d>.<d>h the hours times 60 rounded
\* half up to a whole minute
C20_MinutesOfEachForm ==
    cmd.name = "parseDuration" =>
        LET s == cmd.duration
            front == SubSeq(s, 1, Len(s) - 1)
        IN  /\ PlainInteger(s) => Gives(ParseInt(s))
            /\ UnitOnly(s, "m") => Gives(ParseInt(front))
            /\ UnitOnly(s, "h") => Gives(MinutesPerHour * ParseInt(front))
            /\ \A i \in 1..Len(s) :
                  /\ HourMinute(s, i) =>
                        Gives(MinutesPerHour * ParseInt(SubSeq(s, 1, i - 1))
                              + ParseInt(SubSeq(s, i + 1, Len(s) - 1)))
                  /\ DecimalHours(s, i) =>
                        Gives(HalfUp(MinutesPerHour
                                        * ParseInt(SubSeq(s, 1, i - 1) \o FractionOf(s, i)),
                                     Pow10(Len(FractionOf(s, i)))))

====
